---- MODULE Spec2Model ----
(***************************************************************************)
(* hft-volstack server: the Fyers token lifecycle (token store, token      *)
(* manager with its shared in-flight refresh promise, the axios wrapper    *)
(* with its 401 retry, the direct history call) and the date-range         *)
(* chunking used by the historical syncs.                                  *)
(*                                                                         *)
(* Time is in milliseconds, as Date.now().  One step of the model is one   *)
(* run-to-completion job of the Node event loop: the code between two      *)
(* awaits.  A file read is two steps: the read itself, which fixes the     *)
(* value, and the continuation of the awaiting function.  The waiters of   *)
(* a promise that settles resume back to back in the same microtask drain, *)
(* so they resume in the step that settles the promise.                    *)
(***************************************************************************)
EXTENDS Integers, Sequences, FiniteSets, TLC

----------------------------------------------------------------------------
(* Bounds of the model *)

MaxRefresh == 2
MaxTicks == 1
MaxChunks == 2
MaxSpan == 200
MaxDays == 250

----------------------------------------------------------------------------
(* Program constants *)

RefreshBufferMs == 60000
DefaultExpiresIn == 86400
\* syncStockData: "if (daysDiff > 90)" and "chunkDateRange(range_from, range_to, 90)"
MaxDirectDays == 90
ChunkDays == 90

\* The upstream calls of the server, one process each: getProfile and
\* getFunds go through fyersHttpClient (the interceptors); a sync calls
\* getHistoricalData once per chunk, through axios directly.
WrappedCalls == {"getProfile", "getFunds"}
Callers == WrappedCalls \cup {"syncStockData"}
PromiseIds == 1..MaxRefresh

\* fyersTokenStore.get() returns null or a token: <<>> or <<token>>
Null == <<>>
Some(t) == <<t>>

\* The refresh response: expires_in (0 stands for "absent") and whether it
\* carries a refresh_token
RefreshResponses == {[expiresIn |-> 0, rtPresent |-> FALSE],
                     [expiresIn |-> 3600, rtPresent |-> TRUE]}

Statuses == {200, 401, 500}

NoHeader == -1

\* error.response.data of the error responses
Bodies == {"invalid symbol", "limit exceeded"}

\* no error thrown
\* (message: its text, and the status and body the text spells out; "" where
\* it spells out none)
NoError == [message |-> [text |-> "", status |-> 0, body |-> ""], response |-> <<>>]

\* the error axios rejects with for a response of status s and body b
AxiosError(s, b) ==
  [message |-> [text |-> "Request failed with status code", status |-> s,
               body |-> ""],
   response |-> <<[status |-> s, data |-> b]>>]

\* getHistoricalData's catch: new Error(`Fyers API returned ${status}:
\* ${JSON.stringify(data)}`), which has no response property
HistoryErrorNoBody(s, b) ==
  [message |-> [text |-> "Fyers API returned", status |-> s, body |-> ""],
   response |-> <<>>]

HistoryError(s, b) ==
  [message |-> [text |-> "Fyers API returned", status |-> s, body |-> b],
   response |-> <<>>]

VARIABLES
  now,             \* Date.now()
  tokenStore,      \* content of .fyers-token.json: Null or Some(token)
  refreshPromise,  \* FyersTokenManager.refreshPromise: 0 (null) or a promise id
  promises,        \* the promises performRefresh() has returned
  nPromises,       \* how many of them exist
  refreshCalls,    \* POSTs to /validate-refresh-token so far
  pc,              \* where each caller stands
  tokRead,         \* the value its pending fyersTokenStore.get() has read
  ctx,             \* who awaits refreshAccessToken: "gvat" or "forced"
  awaiting,        \* the promise a caller awaits in refreshAccessToken
  header,          \* config.headers.Authorization of its request
  retry,           \* originalRequest._retry
  outcome,         \* how the call ended
  chunkIdx,        \* sync: index i of the chunk loop
  nChunks,         \* sync: chunks.length
  sent,            \* history: the requests it sent upstream
  rres,            \* history: what refreshAccessToken last gave it
  hist,            \* history: flags of its refreshAccessToken calls
  lastStatus,      \* error.response?.status / response.status it last got (0: none)
  lastBody,        \* error.response.data of the error response that ended its call
  thrown,          \* the error its call threw for that response
  range_from,      \* syncStockData: first day of the range, DD/MM/YYYY
  range_to,        \* syncStockData: last day of the range, DD/MM/YYYY
  plan,            \* syncStockData: "none", "chunked" or "single"
  chunks,          \* syncStockData: the ranges it requests, in order
  spc,             \* syncStockData: where the fetch stands
  ci,              \* syncStockData: the loop variable i, counted from 1
  log,             \* what the sync has done so far, in order
  todo,            \* candles of the current response not yet written
  db,              \* rows of the candle table of config.model
  totals,          \* totalCandles, totalInserted, totalUpdated, totalSkipped
  result,          \* what syncStockData returned or threw
  candles,         \* rows of the table "candles" of the strategy server
  shadow,          \* the rows per-row upserts of the same candles would leave
  lpc,             \* FyersAuthService.login: "idle", "posted" or "saving"
  ltok,            \* login: the token it is saving
  authLog,         \* which of login, failed login and logout have completed
  strategyRunning, \* strategy server: let strategyRunning
  strategyInterval,\* strategy server: the setInterval timer is set
  lastFetchedTimestamp, \* strategy server: let lastFetchedTimestamp (0: null)
  run,             \* the invocations of runStrategy in progress
  rpc,             \* POST /strategy/reset: where the handler stands
  resetRes,        \* POST /strategy/reset: the responses it has given
  timers,          \* strategy server: the interval timers registered and not cleared
  stratRes,        \* the last of the responses of /strategy/start and /strategy/stop
                   \* and of the "reset" responses of /strategy/reset
  totalDays,       \* /nifty50-1min: const totalDays
  daysAgo,         \* /nifty50-1min: the loop variable daysAgo
  npc,             \* /nifty50-1min: where the handler stands
  nreqs,           \* /nifty50-1min: range_from and range_to of its requests
  allCandles,      \* /nifty50-1min: let allCandles
  bpc,             \* POST /syncAllStocks: where the handler stands
  attempts,        \* /syncAllStocks: the names whose sync was called, in order
  results,         \* /syncAllStocks: const results, as its entries
  totalErrors,     \* /syncAllStocks: let totalErrors
  summary,         \* /syncAllStocks: the response sent
  file,            \* the token file .fyers-token.json as a reader finds it
  fsave,           \* fyersTokenStore.save: where its fs.writeFile stands
  fget             \* per caller: its getValidAccessToken on the file

vars == <<now, tokenStore, refreshPromise, promises, nPromises, refreshCalls,
          pc, tokRead, ctx, awaiting, header, retry, outcome, chunkIdx,
          nChunks, sent, rres, hist, lastStatus, lastBody, thrown, range_from, range_to, plan, chunks,
          spc, ci, log, todo, db, totals, result, candles, shadow,
          lpc, ltok, authLog, strategyRunning, strategyInterval,
          lastFetchedTimestamp, run, rpc, resetRes, timers, stratRes, totalDays, daysAgo, npc,
          nreqs, allCandles, bpc, attempts, results, totalErrors, summary,
          file, fsave, fget>>

fetchVars == <<spc, ci, log, todo, db, totals, result>>
storeVars == <<candles, shadow>>
authVars == <<lpc, ltok, authLog>>
niftyVars == <<totalDays, daysAgo, npc, nreqs, allCandles>>
bulkVars == <<bpc, attempts, results, totalErrors, summary>>
fileVars == <<file, fsave, fget>>
stratVars == <<strategyRunning, strategyInterval, lastFetchedTimestamp, run,
               rpc, resetRes, timers, stratRes>>
rangeVars == <<range_from, range_to, plan, chunks, fetchVars, storeVars>>
tmVars == <<refreshPromise, promises, nPromises, refreshCalls>>
callVars == <<pc, tokRead, ctx, awaiting, header, retry, outcome,
              chunkIdx, nChunks, sent, rres, hist,
              lastStatus, lastBody, thrown>>

----------------------------------------------------------------------------
(* Pure parts of the code *)

\* getValidAccessToken, after the store read: throw, return the stored
\* token, or refresh
GvatDecisionNoBuffer(t, time) ==
  IF t = Null THEN "missing"
  ELSE IF t[1].expiresAt > time THEN "valid" ELSE "refresh"

GvatDecisionMissingRefreshes(t, time) ==
  IF t = Null THEN "refresh"
  ELSE IF t[1].expiresAt > time + RefreshBufferMs THEN "valid" ELSE "refresh"

GvatDecisionAlwaysRefresh(t, time) ==
  IF t = Null THEN "missing" ELSE "refresh"

GvatDecision(t, time) ==
  IF t = Null THEN "missing"
  ELSE IF t[1].expiresAt > time + RefreshBufferMs THEN "valid" ELSE "refresh"

\* refreshAccessToken: if (!this.refreshPromise)
SlotFreeAlways(slot) == TRUE

SlotFree(slot) == slot = 0

\* performRefresh: the token built from the refresh response
UpdatedKeepsRefreshToken(old, access, rt, resp, time) ==
  [accessToken |-> access,
   refreshToken |-> old.refreshToken,
   expiresAt |-> time + (IF resp.expiresIn = 0 THEN DefaultExpiresIn
                         ELSE resp.expiresIn) * 1000]

Updated(old, access, rt, resp, time) ==
  [accessToken |-> access,
   refreshToken |-> IF resp.rtPresent THEN rt ELSE old.refreshToken,
   expiresAt |-> time + (IF resp.expiresIn = 0 THEN DefaultExpiresIn
                         ELSE resp.expiresIn) * 1000]

\* performRefresh when the POST throws: nothing is saved
StoreAfterRefreshFailureCleared(s) == Null

StoreAfterRefreshFailure(s) == s

\* FyersAuthService.login when the POST throws: save is not reached
StoreAfterLoginFailureCleared(s) == Null

StoreAfterLoginFailure(s) == s

\* request interceptor: config.headers.Authorization = `${id}:${token}`
AuthHeaderCached(old, token) == IF old # NoHeader THEN old ELSE token

AuthHeader(old, token) == token

\* response interceptor: if (status === 401 && !originalRequest._retry)
ShouldRetryNoMark(status, retried) == status = 401

ShouldRetryAnyError(status, retried) == status # 200 /\ ~retried

ShouldRetry(status, retried) == status = 401 /\ ~retried

\* is the call made through fyersHttpClient (interceptors) or through axios
UsesWrapper(r) == r \in WrappedCalls

----------------------------------------------------------------------------
(* Initial state *)

InitExpiries == {RefreshBufferMs, 2 * RefreshBufferMs}

InitStores ==
  {Null} \cup
  {Some([accessToken |-> 0, refreshToken |-> 0, expiresAt |-> e]) : e \in InitExpiries}

\* no refresh response yet
NoResponse == [expiresIn |-> 0, rtPresent |-> FALSE]

NoPromise ==
  [st |-> "unused", via |-> "none", trig |-> NoHeader, starter |-> "none",
   old |-> Null, upd |-> Null, err |-> "none", resp |-> NoResponse, at |-> 0]

NoHist == [forced |-> 0, joinSlot |-> 0, staleJoin |-> FALSE]

NoTotals == [total |-> 0, inserted |-> 0, updated |-> 0, skipped |-> 0]

\* syncStockData has fetched nothing yet, the candle table is empty
NoFetch ==
  /\ spc = "loop"
  /\ ci = 1
  /\ log = <<>>
  /\ todo = <<>>
  /\ db = {}
  /\ totals = NoTotals
  /\ result = "none"

\* the table "candles" is empty
NoStore ==
  /\ candles = {}
  /\ shadow = {}

\* no sync range is being planned
NoRange ==
  /\ range_from = <<>>
  /\ range_to = <<>>
  /\ plan = "none"
  /\ chunks = <<>>
  /\ NoFetch
  /\ NoStore

\* nobody is logging in
NoAuth ==
  /\ lpc = "idle"
  /\ ltok = Null
  /\ authLog = {}

\* invocations of runStrategy that can be in progress at once
RunSlots == {1, 2}

IdleRun == [pc |-> "idle", rangeFrom |-> 0, rangeTo |-> 0, cs |-> <<>>, seen |-> 0]

\* the strategy server has just started
NoStrategy ==
  /\ strategyRunning = FALSE
  /\ strategyInterval = FALSE
  /\ lastFetchedTimestamp = 0
  /\ run = [k \in RunSlots |-> IdleRun]
  /\ rpc = "idle"
  /\ resetRes = {}
  /\ timers = 0
  /\ stratRes = "none"

\* /nifty50-1min has not been called
NoNifty ==
  /\ totalDays = 0
  /\ daysAgo = 0
  /\ npc = "idle"
  /\ nreqs = <<>>
  /\ allCandles = <<>>

\* no response of /syncAllStocks
NoSummary == [status |-> 0, success |-> FALSE, results |-> {}]

\* /syncAllStocks has not been called
NoBulk ==
  /\ bpc = "idle"
  /\ attempts = <<>>
  /\ results = {}
  /\ totalErrors = 0
  /\ summary = NoSummary

\* the token written by the n-th save (0: the one stored at the start)
FileToken(n) == [accessToken |-> n, refreshToken |-> n, expiresAt |-> DefaultExpiresIn * 1000]

\* the token file holds a whole token; no save and no read is going on
FileAtRest ==
  /\ file = [st |-> "whole", n |-> 0]
  /\ fsave = [pc |-> "idle", n |-> 0]
  /\ fget = [r \in Callers |-> [pc |-> "idle", res |-> "none", n |-> 0]]

TokenInit(stores) ==
  /\ NoAuth
  /\ NoStrategy
  /\ NoBulk
  /\ FileAtRest
  /\ now = 0
  /\ tokenStore \in stores
  /\ refreshPromise = 0
  /\ promises = [p \in PromiseIds |-> NoPromise]
  /\ nPromises = 0
  /\ refreshCalls = 0
  /\ pc = [r \in Callers |-> "idle"]
  /\ tokRead = [r \in Callers |-> Null]
  /\ ctx = [r \in Callers |-> "none"]
  /\ awaiting = [r \in Callers |-> 0]
  /\ header = [r \in Callers |-> NoHeader]
  /\ retry = [r \in Callers |-> FALSE]
  /\ outcome = [r \in Callers |-> "none"]
  /\ chunkIdx = [r \in Callers |-> 0]
  /\ nChunks = [r \in Callers |-> 0]
  /\ sent = [r \in Callers |-> <<>>]
  /\ rres = [r \in Callers |-> <<>>]
  /\ hist = [r \in Callers |-> NoHist]
  /\ lastStatus = [r \in Callers |-> 0]
  /\ lastBody = [r \in Callers |-> ""]
  /\ thrown = [r \in Callers |-> NoError]

Init == TokenInit(InitStores) /\ NoRange /\ NoNifty

----------------------------------------------------------------------------
(* Time *)

Tick ==
  /\ now < MaxTicks * RefreshBufferMs
  /\ now' = now + RefreshBufferMs
  /\ UNCHANGED <<tokenStore, tmVars, callVars, authVars, stratVars, niftyVars, bulkVars, fileVars>>
  /\ UNCHANGED <<rangeVars, authVars, stratVars, niftyVars, bulkVars, fileVars>>

----------------------------------------------------------------------------
(* Token manager *)

Pending(p) == promises[p].st \in {"start", "posted", "saving"}

Waiters(p) == {r \in Callers : pc[r] = "await_refresh" /\ awaiting[r] = p}

\* getValidAccessToken() has a token for r: the request interceptor (or
\* getHistoricalData) builds the Authorization header and the request goes out
SendWith(r, tok, exp, fast) ==
  [hdr |-> AuthHeader(header[r], tok), tok |-> tok, exp |-> exp, fast |-> fast]

\* refreshAccessToken() up to its await, called by r from getValidAccessToken
\* (c = "gvat", trig = the access token it found expiring) or from the
\* response interceptor (c = "forced").  A free slot starts performRefresh(),
\* which runs up to its own first await.  Awaiting a promise that is already
\* rejected throws at once.  Sets the token-manager variables but refreshCalls,
\* and r's pc, ctx, awaiting, outcome, rres and hist.
RefreshAccessToken(r, c, trig) ==
  LET seen == IF refreshPromise # 0 /\ Pending(refreshPromise) THEN refreshPromise ELSE 0
      h == [hist[r] EXCEPT !.forced = IF c = "forced" THEN @ + 1 ELSE @,
                           !.joinSlot = seen]
  IN
  IF SlotFree(refreshPromise)
  THEN /\ nPromises < MaxRefresh
       /\ nPromises' = nPromises + 1
       /\ refreshPromise' = nPromises + 1
       /\ promises' = [promises EXCEPT ![nPromises + 1] =
                         [NoPromise EXCEPT !.st = "start", !.via = c,
                                           !.trig = trig, !.starter = r]]
       /\ pc' = [pc EXCEPT ![r] = "await_refresh"]
       /\ ctx' = [ctx EXCEPT ![r] = c]
       /\ awaiting' = [awaiting EXCEPT ![r] = nPromises + 1]
       /\ hist' = [hist EXCEPT ![r] = h]
       /\ UNCHANGED <<outcome, rres>>
  ELSE /\ promises[refreshPromise].st # "resolved"
       /\ UNCHANGED <<nPromises, refreshPromise, promises>>
       /\ ctx' = [ctx EXCEPT ![r] = c]
       /\ IF Pending(refreshPromise)
          THEN /\ pc' = [pc EXCEPT ![r] = "await_refresh"]
               /\ awaiting' = [awaiting EXCEPT ![r] = refreshPromise]
               /\ hist' = [hist EXCEPT ![r] = h]
               /\ UNCHANGED <<outcome, rres>>
          ELSE /\ pc' = [pc EXCEPT ![r] = "done"]
               /\ outcome' = [outcome EXCEPT ![r] = promises[refreshPromise].err]
               /\ rres' = [rres EXCEPT ![r] = <<refreshPromise, "err", 0>>]
               /\ hist' = [hist EXCEPT ![r] = [h EXCEPT !.staleJoin = TRUE]]
               /\ UNCHANGED awaiting

\* performRefresh(): the store read and, if a token is there, the POST
PerformRefreshPost(p) ==
  /\ promises[p].st = "start"
  /\ IF tokenStore = Null
     THEN /\ promises' = [promises EXCEPT ![p].st = "rejected",
                                          ![p].err = "RefreshTokenMissing"]
          /\ pc' = [r \in Callers |-> IF r \in Waiters(p) THEN "done" ELSE pc[r]]
          /\ outcome' = [r \in Callers |->
                           IF r \in Waiters(p) THEN "RefreshTokenMissing" ELSE outcome[r]]
          /\ rres' = [r \in Callers |->
                        IF r \in Waiters(p) THEN <<p, "err", 0>> ELSE rres[r]]
          /\ UNCHANGED refreshCalls
     ELSE /\ promises' = [promises EXCEPT ![p].st = "posted", ![p].old = tokenStore]
          /\ refreshCalls' = refreshCalls + 1
          /\ UNCHANGED <<pc, outcome, rres>>
  /\ UNCHANGED <<now, tokenStore, refreshPromise, nPromises, tokRead, ctx,
                 awaiting, header, retry, chunkIdx, nChunks, sent, hist,
                 lastStatus, lastBody, thrown>>
  /\ UNCHANGED <<rangeVars, authVars, stratVars, niftyVars, bulkVars, fileVars>>

\* the upstream accepts the refresh: performRefresh builds the new token and
\* starts saving it
UpstreamRefreshOk(p, resp) ==
  /\ promises[p].st = "posted"
  /\ promises' = [promises EXCEPT
                    ![p].st = "saving",
                    ![p].upd = Some(Updated(promises[p].old[1], p, p, resp, now)),
                    ![p].resp = resp,
                    ![p].at = now]
  /\ UNCHANGED <<now, tokenStore, refreshPromise, nPromises, refreshCalls, callVars>>
  /\ UNCHANGED <<rangeVars, authVars, stratVars, niftyVars, bulkVars, fileVars>>

\* the upstream rejects the refresh (or the POST fails): performRefresh
\* throws, the promise rejects, every waiter's await throws
UpstreamRefreshFail(p) ==
  /\ promises[p].st = "posted"
  /\ promises' = [promises EXCEPT ![p].st = "rejected", ![p].err = "RefreshFailed"]
  /\ tokenStore' = StoreAfterRefreshFailure(tokenStore)
  /\ pc' = [r \in Callers |-> IF r \in Waiters(p) THEN "done" ELSE pc[r]]
  /\ outcome' = [r \in Callers |->
                   IF r \in Waiters(p) THEN "RefreshFailed" ELSE outcome[r]]
  /\ rres' = [r \in Callers |-> IF r \in Waiters(p) THEN <<p, "err", 0>> ELSE rres[r]]
  /\ UNCHANGED <<now, refreshPromise, nPromises, refreshCalls, tokRead, ctx,
                 awaiting, header, retry, chunkIdx, nChunks, sent, hist,
                 lastStatus, lastBody, thrown>>
  /\ UNCHANGED <<rangeVars, authVars, stratVars, niftyVars, bulkVars, fileVars>>

\* fyersTokenStore.save(updated) completes: performRefresh returns the access
\* token, the promise resolves, every waiter clears the slot and returns it.
\* A waiter in getValidAccessToken has its token and sends its request; a
\* waiter in the response interceptor sets the header and dispatches the
\* request again, which runs the request interceptor again.
SaveDone(p) ==
  LET u == promises[p].upd[1]
      W == Waiters(p)
  IN
  /\ promises[p].st = "saving"
  /\ tokenStore' = promises[p].upd
  /\ promises' = [promises EXCEPT ![p].st = "resolved"]
  /\ refreshPromise' = IF W # {} THEN 0 ELSE refreshPromise
  /\ rres' = [r \in Callers |-> IF r \in W THEN <<p, "ok", u.accessToken>> ELSE rres[r]]
  /\ pc' = [r \in Callers |->
              IF r \in W THEN (IF ctx[r] = "forced" THEN "gvat_read" ELSE "await_resp")
              ELSE pc[r]]
  /\ header' = [r \in Callers |->
                  IF r \in W
                  THEN (IF ctx[r] = "forced" THEN u.accessToken
                        ELSE AuthHeader(header[r], u.accessToken))
                  ELSE header[r]]
  /\ sent' = [r \in Callers |->
                IF r \in W /\ ctx[r] = "gvat"
                THEN Append(sent[r], SendWith(r, u.accessToken, u.expiresAt, FALSE))
                ELSE sent[r]]
  /\ awaiting' = [r \in Callers |-> IF r \in W THEN 0 ELSE awaiting[r]]
  /\ UNCHANGED <<now, nPromises, refreshCalls, tokRead, ctx, retry, outcome,
                 chunkIdx, nChunks, hist,
                 lastStatus, lastBody, thrown>>
  /\ UNCHANGED <<rangeVars, authVars, stratVars, niftyVars, bulkVars, fileVars>>

----------------------------------------------------------------------------
(* Callers: getProfile / getFunds through fyersHttpClient, and the history
   calls of a sync through axios *)

\* a route handler makes its upstream call: the request interceptor (or
\* getHistoricalData) calls getValidAccessToken, whose store read completes.
\* n is the number of chunks of a sync.
Call(r, n) ==
  /\ pc[r] = "idle"
  /\ UsesWrapper(r) => n = 1
  /\ nChunks' = [nChunks EXCEPT ![r] = n]
  /\ tokRead' = [tokRead EXCEPT ![r] = tokenStore]
  /\ pc' = [pc EXCEPT ![r] = "gvat_resume"]
  /\ UNCHANGED <<now, tokenStore, tmVars, ctx, awaiting, header, retry,
                 outcome, chunkIdx, sent, rres, hist,
                 lastStatus, lastBody, thrown>>
  /\ UNCHANGED <<rangeVars, authVars, stratVars, niftyVars, bulkVars, fileVars>>

\* fyersTokenStore.get() of a later getValidAccessToken call (the next chunk,
\* the retried request): the file is read
StoreGet(r) ==
  /\ pc[r] = "gvat_read"
  /\ tokRead' = [tokRead EXCEPT ![r] = tokenStore]
  /\ pc' = [pc EXCEPT ![r] = "gvat_resume"]
  /\ UNCHANGED <<now, tokenStore, tmVars, ctx, awaiting, header, retry,
                 outcome, chunkIdx, nChunks, sent, rres, hist,
                 lastStatus, lastBody, thrown>>
  /\ UNCHANGED <<rangeVars, authVars, stratVars, niftyVars, bulkVars, fileVars>>

\* getValidAccessToken() after its await
GvatResume(r) ==
  /\ pc[r] = "gvat_resume"
  /\ LET d == GvatDecision(tokRead[r], now) IN
     IF d = "missing"
     THEN /\ pc' = [pc EXCEPT ![r] = "done"]
          /\ outcome' = [outcome EXCEPT ![r] = "TokenMissing"]
          /\ UNCHANGED <<tmVars, ctx, awaiting, header, sent, rres, hist>>
     ELSE IF d = "valid"
     THEN /\ pc' = [pc EXCEPT ![r] = "await_resp"]
          /\ header' = [header EXCEPT ![r] = AuthHeader(@, tokRead[r][1].accessToken)]
          /\ sent' = [sent EXCEPT ![r] =
                        Append(@, SendWith(r, tokRead[r][1].accessToken,
                                           tokRead[r][1].expiresAt, TRUE))]
          /\ UNCHANGED <<tmVars, ctx, awaiting, outcome, rres, hist>>
     ELSE /\ RefreshAccessToken(r, "gvat", IF tokRead[r] = Null THEN NoHeader
                                             ELSE tokRead[r][1].accessToken)
          /\ UNCHANGED <<refreshCalls, header, sent>>
  /\ UNCHANGED <<now, tokenStore, tokRead, retry, chunkIdx, nChunks, lastStatus, lastBody, thrown>>
  /\ UNCHANGED <<rangeVars, authVars, stratVars, niftyVars, bulkVars, fileVars>>

\* a 2xx response: the wrapped call returns; the sync goes on to its next chunk
RespondOk(r) ==
  /\ pc[r] = "await_resp"
  /\ IF UsesWrapper(r) \/ chunkIdx[r] + 1 >= nChunks[r]
     THEN /\ pc' = [pc EXCEPT ![r] = "done"]
          /\ outcome' = [outcome EXCEPT ![r] = "ok"]
     ELSE /\ pc' = [pc EXCEPT ![r] = "gvat_read"]
          /\ UNCHANGED outcome
  /\ chunkIdx' = [chunkIdx EXCEPT ![r] = IF UsesWrapper(r) THEN @ ELSE @ + 1]
  /\ lastStatus' = [lastStatus EXCEPT ![r] = 200]
  /\ UNCHANGED <<lastBody, thrown>>
  /\ UNCHANGED <<now, tokenStore, tmVars, tokRead, ctx, awaiting, header,
                 retry, nChunks, sent, rres, hist>>
  /\ UNCHANGED <<rangeVars, authVars, stratVars, niftyVars, bulkVars, fileVars>>

StatusError(s) == IF s = 401 THEN "Http401" ELSE "Http500"

\* an error response to a wrapped call that is retried: mark the request and
\* force a refresh
RespondErrorRetry(r, s) ==
  /\ pc[r] = "await_resp"
  /\ s # 200
  /\ UsesWrapper(r)
  /\ ShouldRetry(s, retry[r])
  /\ retry' = [retry EXCEPT ![r] = TRUE]
  /\ lastStatus' = [lastStatus EXCEPT ![r] = s]
  /\ UNCHANGED <<lastBody, thrown>>
  /\ RefreshAccessToken(r, "forced", NoHeader)
  /\ UNCHANGED <<now, tokenStore, refreshCalls, tokRead, header, chunkIdx,
                 nChunks, sent>>
  /\ UNCHANGED <<rangeVars, authVars, stratVars, niftyVars, bulkVars, fileVars>>

\* an error response that is passed on: by the response interceptor, or by
\* getHistoricalData's catch (and then by the chunk loop's catch)
RespondErrorReject(r, s, b) ==
  /\ pc[r] = "await_resp"
  /\ s # 200
  /\ ~(UsesWrapper(r) /\ ShouldRetry(s, retry[r]))
  /\ pc' = [pc EXCEPT ![r] = "done"]
  /\ outcome' = [outcome EXCEPT ![r] = StatusError(s)]
  /\ lastStatus' = [lastStatus EXCEPT ![r] = s]
  /\ lastBody' = [lastBody EXCEPT ![r] = b]
  /\ thrown' = [thrown EXCEPT ![r] = IF UsesWrapper(r) THEN AxiosError(s, b)
                                      ELSE HistoryError(s, b)]
  /\ UNCHANGED <<now, tokenStore, tmVars, tokRead, ctx, awaiting, header,
                 retry, chunkIdx, nChunks, sent, rres, hist>>
  /\ UNCHANGED <<rangeVars, authVars, stratVars, niftyVars, bulkVars, fileVars>>

----------------------------------------------------------------------------

\* the steps of the server when the calls in S are made
NextOf(S) ==
  \/ Tick
  \/ \E r \in S, n \in 1..MaxChunks : Call(r, n)
  \/ \E r \in S : StoreGet(r)
  \/ \E r \in S : GvatResume(r)
  \/ \E r \in S : RespondOk(r)
  \/ \E r \in S, s \in Statuses : RespondErrorRetry(r, s)
  \/ \E r \in S, s \in Statuses, b \in Bodies : RespondErrorReject(r, s, b)
  \/ \E p \in PromiseIds : PerformRefreshPost(p)
  \/ \E p \in PromiseIds, resp \in RefreshResponses : UpstreamRefreshOk(p, resp)
  \/ \E p \in PromiseIds : UpstreamRefreshFail(p)
  \/ \E p \in PromiseIds : SaveDone(p)

\* getProfile and getFunds, concurrently
Next == NextOf(WrappedCalls)

Spec == Init /\ [][Next]_vars

\* getProfile and a sync, concurrently
NextSync == NextOf({"getProfile", "syncStockData"})

SpecSync == Init /\ [][NextSync]_vars

\* all three
NextAll == NextOf(Callers)

SpecAll == Init /\ [][NextAll]_vars

----------------------------------------------------------------------------
(* Properties of the token manager and of the wrapper *)

\* the POST of performRefresh p has gone out
Posted(p) == promises[p].old # Null

LastSent(r) == sent[r][Len(sent[r])]

\* C1: when several callers call getValidAccessToken while the stored token is
\* expiring, exactly one upstream refresh is issued: no two refresh requests
\* are triggered by getValidAccessToken finding the same stored token expiring.
C1_OneRefreshPerExpiringToken ==
  \A p, q \in PromiseIds :
    ( /\ Posted(p) /\ Posted(q)
      /\ promises[p].via = "gvat" /\ promises[q].via = "gvat"
      /\ promises[p].trig = promises[q].trig ) => p = q

\* C2: a caller that enters refreshAccessToken while a refresh is in flight
\* awaits that refresh and starts none of its own (so there are never more
\* POSTs than refreshes started), and all callers that awaited one refresh
\* got the same outcome: the same access token or the same error.
C2_JoinersShareTheRefresh ==
  /\ \A r \in Callers :
       (pc[r] = "await_refresh" /\ hist[r].joinSlot # 0) =>
         /\ awaiting[r] = hist[r].joinSlot
         /\ promises[awaiting[r]].starter # r
  /\ refreshCalls <= nPromises
  /\ \A r1, r2 \in Callers :
       (rres[r1] # <<>> /\ rres[r2] # <<>> /\ rres[r1][1] = rres[r2][1]) =>
         rres[r1] = rres[r2]
  /\ \A r \in Callers :
       (rres[r] # <<>> /\ rres[r][2] = "ok") =>
         /\ promises[rres[r][1]].st = "resolved"
         /\ rres[r][3] = promises[rres[r][1]].upd[1].accessToken

\* a caller joined a refresh in flight and got the new access token from it
C2_Witness ==
  \E r \in Callers :
    /\ rres[r] # <<>> /\ rres[r][2] = "ok"
    /\ hist[r].joinSlot = rres[r][1]
    /\ promises[rres[r][1]].starter # r

\* C3: a wrapped request is sent at most twice; it is sent a second time only
\* after a 401, one forced refresh and with the request marked; the second
\* send carries an access token that a refresh has issued, not the one the
\* 401 answered; a 401 ends the request only as the answer to the second send.
C3_RetryOnceOn401 ==
  \A r \in WrappedCalls :
    /\ Len(sent[r]) <= 2
    /\ hist[r].forced <= 1
    /\ (hist[r].forced = 1) = retry[r]
    /\ Len(sent[r]) = 2 =>
         /\ retry[r]
         /\ sent[r][2].hdr # sent[r][1].hdr
         /\ \E p \in PromiseIds :
              /\ promises[p].st = "resolved"
              /\ promises[p].upd[1].accessToken = sent[r][2].hdr
    /\ outcome[r] = "Http401" => Len(sent[r]) = 2

\* a stronger statement than C3: the second send carries the very token the
\* forced refresh returned to this request.  It does not hold: the request
\* dispatched again runs the request interceptor again, and getValidAccessToken
\* then returns the stored token, which a later refresh may have replaced.
C3_ResendCarriesOwnRefresh ==
  \A r \in WrappedCalls :
    Len(sent[r]) = 2 => (rres[r] # <<>> /\ sent[r][2].hdr = rres[r][3])

\* a request was answered 401 twice and failed with it
C3_Witness ==
  \E r \in WrappedCalls : outcome[r] = "Http401" /\ Len(sent[r]) = 2

\* C4: every authenticated upstream call that is answered 401 gets the
\* wrapper's recovery: it does not fail with the 401 before a forced refresh
\* and a retry.
C4_Every401IsRetried ==
  \A r \in Callers : outcome[r] = "Http401" => (retry[r] /\ hist[r].forced = 1)

\* C5: when the refresh POST fails, every caller awaiting that refresh gets
\* the error and the token store holds what it held.
C5_FailedRefreshKeepsStore ==
  [][\A p \in PromiseIds :
       (promises[p].st = "posted" /\ promises'[p].st = "rejected") =>
         /\ tokenStore' = tokenStore
         /\ tokenStore' # Null
         /\ \A r \in Waiters(p) : pc'[r] = "done" /\ outcome'[r] = "RefreshFailed"
         /\ Waiters(p) # {}]_vars

\* a refresh failed and its caller has the error
C5_Witness ==
  \E p \in PromiseIds, r \in Callers :
    /\ promises[p].st = "rejected" /\ promises[p].err = "RefreshFailed"
    /\ outcome[r] = "RefreshFailed" /\ rres[r] = <<p, "err", 0>>
    /\ tokenStore = promises[p].old

\* C6: after a failed refresh, a later call of refreshAccessToken makes a new
\* upstream attempt: no call is answered with the error of a refresh that had
\* already failed when the call was made.
C6_FailureIsNotReturnedAgain ==
  \A r \in Callers : ~hist[r].staleJoin

\* C7: the token getValidAccessToken returns is not expired when it returns,
\* and a stored token is returned as is only if it expires more than 60
\* seconds later.
C7_ReturnedTokenNotExpired ==
  [][\A r \in Callers :
       Len(sent'[r]) = Len(sent[r]) + 1 =>
         LET e == sent'[r][Len(sent'[r])] IN
         /\ e.exp > now'
         /\ e.fast => e.exp > now' + RefreshBufferMs
         /\ ~e.fast => rres'[r] # <<>> /\ rres'[r][2] = "ok" /\ rres'[r][3] = e.tok]_vars

\* one call returned the stored token as is, another a refreshed one
C7_Witness ==
  \E r1, r2 \in Callers :
    /\ \E i \in 1..Len(sent[r1]) : sent[r1][i].fast
    /\ \E i \in 1..Len(sent[r2]) : ~sent[r2][i].fast

\* C8: getValidAccessToken with no token stored fails with the token-missing
\* error, sends nothing upstream and leaves the store empty; the call is over.
C8_TokenMissing ==
  [][\A r \in Callers :
       /\ (pc[r] = "gvat_resume" /\ tokRead[r] = Null /\ pc'[r] # "gvat_resume") =>
            /\ pc'[r] = "done" /\ outcome'[r] = "TokenMissing"
            /\ sent'[r] = sent[r]
            /\ refreshCalls' = refreshCalls /\ nPromises' = nPromises
            /\ tokenStore' = tokenStore
       /\ pc[r] = "done" => (pc'[r] = "done" /\ sent'[r] = sent[r])]_vars

\* a call failed with the token-missing error, nothing was ever sent
C8_Witness ==
  \E r \in Callers :
    outcome[r] = "TokenMissing" /\ sent[r] = <<>> /\ refreshCalls = 0 /\ tokenStore = Null

\* C9: every request sent upstream carries the token getValidAccessToken
\* returned for that very request; the sync has sent one request per chunk
\* begun, each with the token of its own getValidAccessToken call.
C9_HeaderFromOwnToken ==
  /\ \A r \in Callers : \A i \in 1..Len(sent[r]) : sent[r][i].hdr = sent[r][i].tok
  /\ \A r \in Callers : pc[r] = "await_resp" => header[r] = LastSent(r).hdr
  /\ LET r == "syncStockData" IN
       Len(sent[r]) = chunkIdx[r] + (IF pc[r] = "await_resp" THEN 1 ELSE 0)
                      + (IF pc[r] = "done" /\ outcome[r] \in {"Http401", "Http500"}
                         THEN 1 ELSE 0)

\* the second chunk of a sync went out with another token than the first
C9_Witness ==
  LET r == "syncStockData" IN
  Len(sent[r]) = 2 /\ sent[r][1].tok # sent[r][2].tok /\ sent[r][2].hdr = sent[r][2].tok

----------------------------------------------------------------------------
(* Date ranges of a sync: syncStockData's choice between one request and
   chunks, and chunkDateRange.  A date string DD/MM/YYYY is the tuple
   <<day, month, year>>; a Date (local midnight, no daylight saving) is the
   number of days since the 1st of January of the first year. *)

Years == 2024..2026
FirstYear == CHOOSE y \in Years : \A z \in Years : y <= z

IsLeap(y) == (y % 4 = 0 /\ y % 100 # 0) \/ y % 400 = 0
DaysInMonth(m, y) ==
  IF m = 2 THEN (IF IsLeap(y) THEN 29 ELSE 28)
  ELSE IF m \in {4, 6, 9, 11} THEN 30 ELSE 31
DaysInYear(y) == IF IsLeap(y) THEN 366 ELSE 365

RECURSIVE DaysBeforeMonth(_, _)
DaysBeforeMonth(m, y) ==
  IF m <= 1 THEN 0 ELSE DaysBeforeMonth(m - 1, y) + DaysInMonth(m - 1, y)

RECURSIVE DaysBeforeYear(_)
DaysBeforeYear(y) ==
  IF y <= FirstYear THEN 0 ELSE DaysBeforeYear(y - 1) + DaysInYear(y - 1)

\* parseDate: split('/').map(Number), new Date(year, month - 1, day)
parseDate(ddmmyyyy) ==
  DaysBeforeYear(ddmmyyyy[3]) + DaysBeforeMonth(ddmmyyyy[2], ddmmyyyy[3])
  + ddmmyyyy[1] - 1

\* formatDate: getDate(), getMonth() + 1, getFullYear()
formatDate(date) ==
  LET year == CHOOSE y \in Years :
                DaysBeforeYear(y) <= date /\ date < DaysBeforeYear(y) + DaysInYear(y)
      inYear == date - DaysBeforeYear(year)
      month == CHOOSE m \in 1..12 :
                 /\ DaysBeforeMonth(m, year) <= inYear
                 /\ inYear < DaysBeforeMonth(m, year) + DaysInMonth(m, year)
  IN <<inYear - DaysBeforeMonth(month, year) + 1, month, year>>

\* the while loop of chunkDateRange
RECURSIVE ChunkLoop(_, _, _, _)
ChunkLoop(currentStart, finalEnd, chunkDays, acc) ==
  IF currentStart < finalEnd
  THEN LET added == currentStart + chunkDays
           currentEnd == IF added > finalEnd THEN finalEnd ELSE added
       IN ChunkLoop(currentEnd + 1, finalEnd, chunkDays,
                    Append(acc, [from |-> formatDate(currentStart),
                                 to |-> formatDate(currentEnd)]))
  ELSE acc

chunkDateRange(startDate, endDate, chunkDays) ==
  ChunkLoop(parseDate(startDate), parseDate(endDate), chunkDays, <<>>)

\* syncStockData: Math.ceil((endDate - startDate) / (1000 * 60 * 60 * 24)),
\* both dates being local midnights
daysDiff(from, to) == parseDate(to) - parseDate(from)

StartDates == {<<1, 1, 2024>>, <<15, 2, 2024>>, <<30, 11, 2024>>, <<1, 3, 2025>>}

RangeInit ==
  /\ range_from \in StartDates
  /\ \E span \in 0..MaxSpan : range_to = formatDate(parseDate(range_from) + span)
  /\ plan = "none"
  /\ chunks = <<>>
  /\ NoFetch
  /\ NoStore

\* syncStockData: if (daysDiff > 90)
NeedsChunksAlways(d) == d >= 0

NeedsChunks(d) == d > MaxDirectDays

\* syncStockData, range longer than 90 days: the chunks it will request
PlanChunked ==
  /\ plan = "none"
  /\ NeedsChunks(daysDiff(range_from, range_to))
  /\ plan' = "chunked"
  /\ chunks' = chunkDateRange(range_from, range_to, ChunkDays)
  /\ UNCHANGED <<range_from, range_to, fetchVars, storeVars, now, tokenStore, tmVars, callVars, authVars, stratVars, niftyVars, bulkVars, fileVars>>

\* syncStockData, range of at most 90 days: one request for the range itself
PlanSingle ==
  /\ plan = "none"
  /\ ~NeedsChunks(daysDiff(range_from, range_to))
  /\ plan' = "single"
  /\ chunks' = <<[from |-> range_from, to |-> range_to]>>
  /\ UNCHANGED <<range_from, range_to, fetchVars, storeVars, now, tokenStore, tmVars, callVars, authVars, stratVars, niftyVars, bulkVars, fileVars>>

InitRange == TokenInit({Null}) /\ RangeInit /\ NoNifty

NextRange == PlanChunked \/ PlanSingle

SpecRange == InitRange /\ [][NextRange]_vars

\* C10: for a range longer than the chunk limit the chunks are in ascending
\* order, contiguous and non-overlapping, begin at the start and end at the
\* end of the range (the end day is covered), and none spans more than the
\* limit.
C10_ChunksCoverRange ==
  plan = "chunked" =>
    LET n == Len(chunks) IN
    /\ n >= 1
    /\ chunks[1].from = range_from
    /\ chunks[n].to = range_to
    /\ \A i \in 1..n :
         /\ parseDate(chunks[i].from) <= parseDate(chunks[i].to)
         /\ daysDiff(chunks[i].from, chunks[i].to) <= ChunkDays
    /\ \A i \in 1..(n - 1) :
         parseDate(chunks[i + 1].from) = parseDate(chunks[i].to) + 1

----------------------------------------------------------------------------
(* The fetch of a sync: syncStockData after it has chosen between one request
   and chunks.  getHistoricalData is seen from its caller: it returns the
   upstream payload or throws.  A candle's timestamp is the day it belongs
   to; the payload for a range holds candles of its first and last day. *)

Prices == {1, 2}
SomeVolume == 7
\* candle[5] when the upstream sends null for the volume
NullVolume == -1

Candle(t, p, v) == [timestamp |-> t, close |-> p, volume |-> v]

\* data.candles of the payload for the range c, as delivered
CandleLists(c) ==
  LET a == parseDate(c.from)
      b == parseDate(c.to)
  IN {<<>>, <<Candle(a, 1, NullVolume)>>}
     \cup {<<Candle(a, p, SomeVolume)>> : p \in Prices}
     \cup {<<Candle(a, p, SomeVolume), Candle(b, p, SomeVolume)>> : p \in Prices}
     \cup {<<Candle(b, p, SomeVolume), Candle(a, p, SomeVolume)>> : p \in Prices}

\* the payloads the request in flight can be answered with
Payloads == IF spc = "resp" THEN CandleLists(chunks[ci]) ELSE {}

Chunked == plan = "chunked"

\* getHistoricalData is called for chunks[ci] (or for the whole range)
SendRequest ==
  /\ plan # "none" /\ spc = "loop" /\ result = "none"
  /\ ci <= Len(chunks)
  /\ log' = Append(log, <<"request", ci>>)
  /\ spc' = "resp"
  /\ UNCHANGED <<ci, todo, db, totals, result>>
  /\ UNCHANGED <<range_from, range_to, plan, chunks, storeVars, now, tokenStore, tmVars, callVars, authVars, stratVars, niftyVars, bulkVars, fileVars>>

\* the payload is ok and has candles: they are counted and then written
AnswerOk(cs) ==
  /\ spc = "resp"
  /\ log' = Append(log, <<"ok", ci>>)
  /\ totals' = [totals EXCEPT !.total = @ + Len(cs)]
  /\ todo' = cs
  /\ spc' = "upsert"
  /\ UNCHANGED <<ci, db, result>>
  /\ UNCHANGED <<range_from, range_to, plan, chunks, storeVars, now, tokenStore, tmVars, callVars, authVars, stratVars, niftyVars, bulkVars, fileVars>>

\* the payload is not ok (data.s !== "ok" or no candles): the chunk loop goes
\* on with "continue", the single request throws
AnswerNotOk ==
  /\ spc = "resp"
  /\ log' = Append(log, <<"notok", ci>>)
  /\ IF Chunked
     THEN /\ ci' = ci + 1
          /\ spc' = "loop"
          /\ UNCHANGED result
     ELSE /\ result' = "error"
          /\ spc' = "done"
          /\ UNCHANGED ci
  /\ UNCHANGED <<todo, db, totals>>
  /\ UNCHANGED <<range_from, range_to, plan, chunks, storeVars, now, tokenStore, tmVars, callVars, authVars, stratVars, niftyVars, bulkVars, fileVars>>

\* the table after the catch of the chunk loop (console.error; throw error):
\* the upserts were awaited one by one outside any transaction, and nothing
\* is undone
DbAfterChunkErrorRolledBack(rows) == {}

DbAfterChunkError(rows) == rows

\* getHistoricalData throws (HTTP error, token error): the catch of the chunk
\* loop logs and throws again; the single request has no catch
AnswerThrow ==
  /\ spc = "resp"
  /\ log' = Append(log, <<"throw", ci>>)
  /\ result' = "error"
  /\ spc' = "done"
  /\ db' = DbAfterChunkError(db)
  /\ UNCHANGED <<ci, todo, totals>>
  /\ UNCHANGED <<range_from, range_to, plan, chunks, storeVars, now, tokenStore, tmVars, callVars, authVars, stratVars, niftyVars, bulkVars, fileVars>>

\* BigInt(volume) in the "create" argument of the upsert throws a TypeError
\* for null, before the upsert is called
BigIntThrows(v) == v = NullVolume

\* config.model.upsert({where: {timestamp}, update, create}) on the table
UpsertRowInsertOnly(rows, c) == rows \cup {c}

UpsertRow(rows, c) == {r \in rows : r.timestamp # c.timestamp} \cup {c}

\* the counters after the try/catch around the upsert of one candle: the
\* upsert returned ("ok"), threw with error.code P2002, or threw another error
TallySuccessOnly(t, o) ==
  IF o = "ok" THEN [t EXCEPT !.inserted = @ + 1] ELSE t

Tally(t, o) ==
  CASE o = "ok"    -> [t EXCEPT !.inserted = @ + 1]
    [] o = "P2002" -> [t EXCEPT !.updated = @ + 1]
    [] OTHER       -> [t EXCEPT !.skipped = @ + 1]

\* one pass of "for (const candle of data.candles)": the upsert of a candle
UpsertCandle ==
  /\ spc = "upsert" /\ todo # <<>>
  /\ LET c == Head(todo) IN
     IF BigIntThrows(c.volume)
     THEN /\ totals' = Tally(totals, "TypeError")
          /\ UNCHANGED <<db, log>>
     ELSE /\ db' = UpsertRow(db, c)
          /\ totals' = Tally(totals, "ok")
          /\ log' = Append(log, <<"write", c.timestamp>>)
  /\ todo' = Tail(todo)
  /\ UNCHANGED <<spc, ci, result>>
  /\ UNCHANGED <<range_from, range_to, plan, chunks, storeVars, now, tokenStore, tmVars, callVars, authVars, stratVars, niftyVars, bulkVars, fileVars>>

\* the candles of the payload are written: the chunk loop waits if a chunk is
\* left, the single request returns its counts
ChunkDone ==
  /\ spc = "upsert" /\ todo = <<>>
  /\ IF Chunked
     THEN /\ IF ci < Len(chunks)
             THEN spc' = "delay" /\ ci' = ci
             ELSE spc' = "loop" /\ ci' = ci + 1
          /\ UNCHANGED result
     ELSE /\ result' = "ok"
          /\ spc' = "done"
          /\ UNCHANGED ci
  /\ UNCHANGED <<log, todo, db, totals>>
  /\ UNCHANGED <<range_from, range_to, plan, chunks, storeVars, now, tokenStore, tmVars, callVars, authVars, stratVars, niftyVars, bulkVars, fileVars>>

\* await new Promise(resolve => setTimeout(resolve, 2000)): the 2 s are over
Delay ==
  /\ spc = "delay"
  /\ log' = Append(log, <<"delay", ci>>)
  /\ ci' = ci + 1
  /\ spc' = "loop"
  /\ UNCHANGED <<todo, db, totals, result>>
  /\ UNCHANGED <<range_from, range_to, plan, chunks, storeVars, now, tokenStore, tmVars, callVars, authVars, stratVars, niftyVars, bulkVars, fileVars>>

\* for (let i = 0; i < chunks.length; i++): the loop is left (i counts from
\* 1 here)
LoopExitNever(i, n) == FALSE

LoopExit(i, n) == i > n

\* the chunk loop is over: the totals are returned
ReturnTotals ==
  /\ Chunked /\ spc = "loop" /\ result = "none"
  /\ LoopExit(ci, Len(chunks))
  /\ result' = "ok"
  /\ spc' = "done"
  /\ UNCHANGED <<ci, log, todo, db, totals>>
  /\ UNCHANGED <<range_from, range_to, plan, chunks, storeVars, now, tokenStore, tmVars, callVars, authVars, stratVars, niftyVars, bulkVars, fileVars>>

\* the ranges a sync is asked for: around the chunk limit and its multiples
FetchSpans == {d \in 0..MaxSpan : d % (ChunkDays + 1) \in {0, 1, ChunkDays} \/ d = MaxSpan}

FetchStarts == {<<1, 1, 2024>>, <<30, 11, 2024>>}

\* rows an earlier sync has left: of the first day of the range and of the
\* day before it
EarlierRows(from) ==
  {Candle(parseDate(from) - 1, 1, SomeVolume), Candle(parseDate(from), 1, SomeVolume)}

\* a sync is called; the table is empty or holds the rows of an earlier sync
InitFetch ==
  /\ TokenInit({Null})
  /\ NoNifty
  /\ range_from \in FetchStarts
  /\ \E span \in FetchSpans : range_to = formatDate(parseDate(range_from) + span)
  /\ plan = "none"
  /\ chunks = <<>>
  /\ spc = "loop" /\ ci = 1 /\ log = <<>> /\ todo = <<>>
  /\ totals = NoTotals /\ result = "none"
  /\ db \in {{}, EarlierRows(range_from)}
  /\ NoStore

NextFetch ==
  \/ PlanChunked
  \/ PlanSingle
  \/ SendRequest
  \/ \E cs \in Payloads : AnswerOk(cs)
  \/ AnswerNotOk
  \/ AnswerThrow
  \/ UpsertCandle
  \/ ChunkDone
  \/ Delay
  \/ ReturnTotals

SpecFetch == InitFetch /\ [][NextFetch]_vars

\* the same, with every pending step of the sync eventually taken: the
\* upstream answers each request (ok, not ok, or with an error), the timer of
\* the delay fires, the database answers each upsert
SpecFetchLive == InitFetch /\ [][NextFetch]_vars /\ WF_vars(NextFetch)

----------------------------------------------------------------------------
(* Properties of the fetch *)

\* positions of the log at which a request was sent
RequestsAt == {k \in 1..Len(log) : log[k][1] = "request"}

\* C11: a range of at most the chunk limit (a single day included) is
\* requested as one chunk equal to the range itself, and the sync makes
\* exactly one history request for it.
C11_ShortRangeOneRequest ==
  (plan # "none" /\ daysDiff(range_from, range_to) <= ChunkDays) =>
    /\ chunks = <<[from |-> range_from, to |-> range_to]>>
    /\ Cardinality(RequestsAt) <= 1
    /\ \A k \in RequestsAt : log[k] = <<"request", 1>>
    /\ result # "none" => Cardinality(RequestsAt) = 1

\* a sync of a single day has returned after its one request
C11_Witness ==
  /\ range_from = range_to /\ plan = "single" /\ result = "ok"
  /\ Cardinality(RequestsAt) = 1

\* the chunks' lengths, counted as days from "from" to "to", and counted as
\* days covered (both ends included)
ChunkSpans == [i \in 1..Len(chunks) |-> daysDiff(chunks[i].from, chunks[i].to)]
ChunkDaysCovered == [i \in 1..Len(chunks) |-> daysDiff(chunks[i].from, chunks[i].to) + 1]

\* C12: a 200-day range (its end 200 days after its start, or 200 days with
\* both ends counted) with the 90-day limit is cut into exactly 3 chunks of
\* lengths 90, 90 and 20 days, under either way of counting a chunk's length.
C12_TwoHundredDays ==
  (plan = "chunked" /\ daysDiff(range_from, range_to) \in {199, 200}) =>
    /\ Len(chunks) = 3
    /\ \/ ChunkSpans = <<ChunkDays, ChunkDays, 200 - 2 * ChunkDays>>
       \/ ChunkDaysCovered = <<ChunkDays, ChunkDays, 200 - 2 * ChunkDays>>

\* k1 and k2 are the positions of two consecutive requests of the log
ConsecutiveRequests(k1, k2) ==
  /\ k1 \in RequestsAt /\ k2 \in RequestsAt /\ k1 < k2
  /\ \A k \in RequestsAt : ~(k1 < k /\ k < k2)

\* C13: the chunk requests of a sync go out one at a time in chunk order, each
\* after the one before has been answered, and the 2 s delay elapses between
\* any two consecutive requests, whether the earlier chunk succeeded or failed.
C13_SequentialWithDelay ==
  \A k1, k2 \in 1..Len(log) :
    ConsecutiveRequests(k1, k2) =>
      /\ log[k2][2] = log[k1][2] + 1
      /\ \E j \in (k1 + 1)..(k2 - 1) : log[j][1] \in {"ok", "notok", "throw"}
      /\ \E j \in (k1 + 1)..(k2 - 1) : log[j] = <<"delay", log[k1][2]>>

\* C14: a chunked sync does not fail because a chunk fails, be it a payload
\* that is not ok or a request that throws: it never ends with an error, and
\* when it has returned, every chunk has been requested.
C14_ChunkFailureIsSkipped ==
  Chunked =>
    /\ result # "error"
    /\ result = "ok" => {log[k][2] : k \in RequestsAt} = 1..Len(chunks)

\* positions of the log at which a candle was written to the table
WritesAt == {k \in 1..Len(log) : log[k][1] = "write"}

\* C15: in a sync of several chunks no candle is written before every chunk
\* has been fetched (no request follows a write), and the candles are written
\* in ascending order of their timestamps.
C15_WriteAfterAllChunksSorted ==
  (Chunked /\ Len(chunks) > 1) =>
    /\ \A w \in WritesAt, k \in RequestsAt : k < w
    /\ \A w1, w2 \in WritesAt : w1 < w2 => log[w1][2] <= log[w2][2]

\* the rows of the table with timestamp t
RowsAt(rows, t) == {r \in rows : r.timestamp = t}

C24_SyncTerminates ==
  /\ [](\A k1, k2 \in RequestsAt : k1 < k2 => log[k1][2] < log[k2][2])
  /\ <>(result # "none")

\* a sync of three chunks has returned its stats, one chunk having had no data
C24_Witness ==
  /\ result = "ok"
  /\ Len(chunks) = 3
  /\ totals.total > 0
  /\ \E k \in 1..Len(log) : log[k][1] = "notok"

\* C30: in the counts of a sync, "inserted" goes up by one for exactly the
\* candles that created a new row, "updated" for exactly the candles that
\* overwrote a row the table already had, and "skipped" for exactly the
\* candles whose write failed.
C30_StatsMeanWhatTheySay ==
  [][(spc = "upsert" /\ todo # <<>> /\ todo' = Tail(todo)) =>
       LET c       == Head(todo)
           existed == \E r \in db : r.timestamp = c.timestamp
           written == c \in db' /\ log' # log
       IN  /\ totals'.inserted - totals.inserted = (IF written /\ ~existed THEN 1 ELSE 0)
           /\ totals'.updated - totals.updated = (IF written /\ existed THEN 1 ELSE 0)
           /\ totals'.skipped - totals.skipped = (IF ~written THEN 1 ELSE 0)]_vars

\* the four counts of the sync add up
CountsAddUp(t) == t.total = t.inserted + t.updated + t.skipped

\* C31: the stats a sync returns satisfy total = inserted + updated + skipped;
\* total grows by the number of candles of each chunk that was fetched
\* successfully, and a chunk that failed (not ok, or thrown) changes none of
\* the four counts.
C31_StatsAddUp ==
  /\ [](result = "ok" => CountsAddUp(totals))
  /\ [][/\ (spc = "resp" /\ spc' = "upsert") =>
            (totals' = [totals EXCEPT !.total = @ + Len(todo')])
        /\ (spc = "resp" /\ spc' # "upsert") => totals' = totals]_vars

\* a chunked sync has returned stats with written and skipped candles, one
\* chunk having failed
C31_Witness ==
  /\ result = "ok"
  /\ Chunked
  /\ totals.inserted > 0 /\ totals.skipped > 0
  /\ CountsAddUp(totals)
  /\ \E k \in 1..Len(log) : log[k][1] = "notok"

\* the timestamps the sync has written so far
WrittenStamps == {log[k][2] : k \in {j \in 1..Len(log) : log[j][1] = "write"}}

\* C32: when a chunked sync has ended with an error at chunk k, the table
\* still holds a row for every candle the sync wrote before, no chunk after
\* k was requested, and from then on the sync requests and writes nothing.
C32_ErrorKeepsEarlierChunks ==
  /\ []((Chunked /\ result = "error") =>
          /\ WrittenStamps \subseteq {r.timestamp : r \in db}
          /\ log[Len(log)] = <<"throw", ci>>
          /\ \A k \in RequestsAt : log[k][2] <= ci)
  /\ [][(Chunked /\ result = "error") => (db' = db /\ log' = log)]_vars

\* a sync of three chunks ended with an error at the second chunk, after it
\* wrote candles of the first
C32_Witness ==
  /\ Chunked /\ result = "error"
  /\ Len(chunks) = 3 /\ ci = 2
  /\ WrittenStamps # {}
  /\ WrittenStamps \subseteq {r.timestamp : r \in db}

----------------------------------------------------------------------------
(* The candle tables as the writers see them: every statement is atomic, so
   runs that overlap in time are interleavings of their statements.  The
   tables of the sync server have the timestamp as primary key
   (nifty_spot_1min and the like, one per symbol); the table "candles" of the
   strategy server has UNIQUE(symbol, timestamp). *)

SYMBOL == "NSE:NIFTY50-INDEX"
Symbols == {SYMBOL, "NSE:SBIN-EQ"}
StoreStamps == {1, 2}
BATCH_SIZE == 10000

StoreCandles == {Candle(t, p, SomeVolume) : t \in StoreStamps, p \in Prices}

\* the candle arrays handed to insertCandlesToDB
StoreCandleLists ==
  {<<>>} \cup {<<c>> : c \in StoreCandles}
         \cup {<<c1, c2>> : c1 \in StoreCandles, c2 \in StoreCandles}

\* insertCandlesToDB: batch.map(candle => ({symbol, timestamp, ..., volume}))
Row(symbol, c) ==
  [symbol |-> symbol, timestamp |-> c.timestamp, close |-> c.close, volume |-> c.volume]

SameKey(r, d) == r.symbol = d.symbol /\ r.timestamp = d.timestamp

\* prisma.candle.createMany({data, skipDuplicates: true}), which is INSERT ...
\* ON CONFLICT DO NOTHING: a row whose key is in the table is left out
RECURSIVE CreateManyNoSkip(_, _)
CreateManyNoSkip(rows, data) ==
  IF data = <<>> THEN rows ELSE CreateManyNoSkip(rows \cup {Head(data)}, Tail(data))

RECURSIVE CreateMany(_, _)
CreateMany(rows, data) ==
  IF data = <<>> THEN rows
  ELSE LET d == Head(data) IN
       CreateMany(IF \E r \in rows : SameKey(r, d) THEN rows ELSE rows \cup {d},
                  Tail(data))

\* insertCandlesToDB: for (let i = 0; i < candles.length; i += BATCH_SIZE);
\* i counts from 1 here
RECURSIVE InsertBatches(_, _, _)
InsertBatches(rows, data, i) ==
  IF i > Len(data) THEN rows
  ELSE LET last == IF i + BATCH_SIZE - 1 < Len(data) THEN i + BATCH_SIZE - 1 ELSE Len(data)
       IN InsertBatches(CreateMany(rows, SubSeq(data, i, last)), data, i + BATCH_SIZE)

insertCandlesToDB(rows, cs, symbol) ==
  IF Len(cs) = 0 THEN rows
  ELSE InsertBatches(rows, [k \in 1..Len(cs) |-> Row(symbol, cs[k])], 1)

\* what upserting the same candles row by row, in order, leaves
RECURSIVE UpsertAll(_, _)
UpsertAll(rows, data) ==
  IF data = <<>> THEN rows
  ELSE LET d == Head(data) IN
       UpsertAll({r \in rows : ~SameKey(r, d)} \cup {d}, Tail(data))

\* one upsert of a sync (syncStockData, /syncNifty50Data) on its table
UpsertStatement(c) ==
  /\ db' = UpsertRow(db, c)
  /\ UNCHANGED <<spc, ci, log, todo, totals, result, storeVars>>
  /\ UNCHANGED <<range_from, range_to, plan, chunks, now, tokenStore, tmVars, callVars, authVars, stratVars, niftyVars, bulkVars, fileVars>>

\* insertCandlesToDB(candles, symbol), called by a strategy run and by
\* /nifty50-1min
InsertCandles(cs, symbol) ==
  /\ candles' = insertCandlesToDB(candles, cs, symbol)
  /\ shadow' = UpsertAll(shadow, [k \in 1..Len(cs) |-> Row(symbol, cs[k])])
  /\ UNCHANGED <<fetchVars, range_from, range_to, plan, chunks, now, tokenStore,
                 tmVars, callVars, authVars, stratVars, niftyVars, bulkVars, fileVars>>

\* /strategy/reset: prisma.candle.deleteMany({where: {symbol: SYMBOL}})
Reset ==
  /\ candles' = {r \in candles : r.symbol # SYMBOL}
  /\ shadow' = {r \in shadow : r.symbol # SYMBOL}
  /\ UNCHANGED <<fetchVars, range_from, range_to, plan, chunks, now, tokenStore,
                 tmVars, callVars, authVars, stratVars, niftyVars, bulkVars, fileVars>>

InitStore == TokenInit({Null}) /\ NoRange /\ NoNifty

NextStore ==
  \/ \E c \in StoreCandles : UpsertStatement(c)
  \/ \E cs \in StoreCandleLists, symbol \in Symbols : InsertCandles(cs, symbol)
  \/ Reset

SpecStore == InitStore /\ [][NextStore]_vars

\* C17: after any sequence of sync upserts, batch inserts (of strategy runs
\* and of /nifty50-1min) and resets, in any interleaving, a table holds at
\* most one row per key: per timestamp in a symbol's table, per (symbol,
\* timestamp) in the table "candles".
C17_OneRowPerKey ==
  /\ \A r1, r2 \in db : r1.timestamp = r2.timestamp => r1 = r2
  /\ \A r1, r2 \in candles : SameKey(r1, r2) => r1 = r2

\* both tables hold rows that were written a second time with other values
C17_Witness ==
  /\ \E r \in db : r.close = 2
  /\ \E r \in candles : r.symbol = SYMBOL /\ r.close = 1
  /\ \E r \in shadow : r.symbol = SYMBOL /\ r.close = 2
  /\ Cardinality(candles) > Cardinality(StoreStamps)

\* C18: the batched write path leaves the table "candles" as per-row upserts
\* of the same candles in the same order would: a candle whose key exists
\* replaces the row's values, a candle with a new key creates a row.
C18_BatchesEqualUpserts == candles = shadow

----------------------------------------------------------------------------
(* The wrapper and the token store, continued *)

\* the step in which the response interceptor of r's request runs
GotResponse(r) == pc[r] = "await_resp" /\ pc'[r] # "await_resp"

\* C19: a response with an error status other than 401 is propagated to the
\* caller unchanged: in the step that receives it the wrapped call ends with
\* that error, no refresh is started or joined, the request is not marked or
\* sent again, and the token store and the token manager stay as they were.
C19_OtherErrorsPropagate ==
  [][\A r \in WrappedCalls :
       (GotResponse(r) /\ lastStatus'[r] \notin {200, 401}) =>
         /\ pc'[r] = "done"
         /\ outcome'[r] = StatusError(lastStatus'[r])
         /\ hist'[r] = hist[r]
         /\ retry'[r] = retry[r]
         /\ sent'[r] = sent[r]
         /\ tokenStore' = tokenStore
         /\ tmVars' = tmVars]_vars

\* a wrapped call got a 500 to its only request and ended with it, the
\* stored token still in place
C19_Witness ==
  \E r \in WrappedCalls :
    /\ pc[r] = "done"
    /\ lastStatus[r] = 500
    /\ outcome[r] = "Http500"
    /\ Len(sent[r]) = 1
    /\ hist[r].forced = 0
    /\ tokenStore # Null

\* C25: in every reachable state at most one refresh is under way (started
\* and not yet resolved or rejected), so at most one refresh request is
\* outstanding upstream, and that refresh is the one the in-flight slot
\* holds: the waiters of a finished refresh, resuming and clearing the slot,
\* never clear the slot of a newer refresh.
C25_OneRefreshOutstanding ==
  /\ Cardinality({p \in PromiseIds : Pending(p)}) <= 1
  /\ \A p \in PromiseIds : Pending(p) => refreshPromise = p

\* a refresh that a second caller had joined is resolved, both have resumed,
\* and a new refresh, started by one of them after a 401, is outstanding
C25_Witness ==
  \E p, q \in PromiseIds :
    /\ promises[p].st = "resolved"
    /\ promises[q].st = "posted" /\ promises[q].via = "forced"
    /\ refreshPromise = q
    /\ \E r \in WrappedCalls :
         rres[r] # <<>> /\ rres[r][1] = p /\ promises[p].starter # r

\* C26: when the token getValidAccessToken has read from the store expires
\* more than 60 seconds from now, it returns that token's access token as it
\* is (the request goes out with it), no refresh is started, joined or posted,
\* and the token store and the in-flight slot stay as they were.
C26_FastPathTouchesNothing ==
  [][\A r \in Callers :
       ( /\ pc[r] = "gvat_resume" /\ pc'[r] # "gvat_resume"
         /\ tokRead[r] # Null
         /\ tokRead[r][1].expiresAt > now + RefreshBufferMs ) =>
           /\ pc'[r] = "await_resp"
           /\ Len(sent'[r]) = Len(sent[r]) + 1
           /\ sent'[r][Len(sent'[r])].tok = tokRead[r][1].accessToken
           /\ hist'[r] = hist[r]
           /\ tokenStore' = tokenStore
           /\ tmVars' = tmVars]_vars

\* a request went out with the stored token, no refresh having been started
C26_Witness ==
  \E r \in Callers :
    /\ pc[r] = "await_resp"
    /\ LastSent(r).fast
    /\ tokenStore # Null /\ LastSent(r).tok = tokenStore[1].accessToken
    /\ nPromises = 0

\* C27: when the save of a successful refresh lands, the store holds the
\* access token of the upstream response (refresh p is answered with access
\* token p and, if any, refresh token p), the refresh token of the response
\* or else the one of the token performRefresh had read, and as expiry the
\* time at which the response was handled plus expires_in seconds (86400
\* when absent); every waiter of the refresh gets the stored access token.
C27_RefreshedTokenFields ==
  [][\A p \in PromiseIds :
       (promises[p].st = "saving" /\ promises'[p].st = "resolved") =>
         /\ tokenStore' # Null
         /\ LET u == tokenStore'[1]
                answer == promises[p].resp
                old == promises[p].old[1]
            IN /\ u.accessToken = p
               /\ u.refreshToken = (IF answer.rtPresent THEN p ELSE old.refreshToken)
               /\ u.expiresAt = promises[p].at + 1000 *
                     (IF answer.expiresIn = 0 THEN DefaultExpiresIn ELSE answer.expiresIn)
               /\ \A r \in Waiters(p) :
                    /\ rres'[r] = <<p, "ok", u.accessToken>>
                    /\ pc'[r] # "await_refresh"]_vars

\* two refreshes have been saved, one whose response carried a refresh token
\* and one whose response carried none; the second is what the store holds
C27_Witness ==
  \E p, q \in PromiseIds :
    /\ promises[p].st = "resolved" /\ promises[q].st = "resolved"
    /\ promises[p].resp.rtPresent /\ ~promises[q].resp.rtPresent
    /\ tokenStore = promises[q].upd
    /\ tokenStore[1].refreshToken = p

\* the errors refreshAccessToken throws
RefreshErrors == {"RefreshFailed", "RefreshTokenMissing"}

\* C28: when the forced refresh that follows a 401 fails (the refresh it
\* started or joined is rejected, or the slot holds a refresh that had failed
\* before), the wrapped call ends with the refresh error, not with the 401,
\* the request is never sent again, and the token store stays as it was.
C28_FailedForcedRefreshRejects ==
  [][\A r \in WrappedCalls :
       /\ ( /\ pc'[r] = "done" /\ retry'[r]
            /\ \/ pc[r] = "await_refresh" /\ ctx[r] = "forced"
               \/ pc[r] = "await_resp" /\ ~retry[r] ) =>
              /\ outcome'[r] \in RefreshErrors
              /\ lastStatus'[r] = 401
              /\ sent'[r] = sent[r]
              /\ tokenStore' = tokenStore
       /\ (pc[r] = "done" /\ outcome[r] \in RefreshErrors) =>
              (pc'[r] = "done" /\ outcome'[r] = outcome[r] /\ sent'[r] = sent[r])]_vars

\* a wrapped request was answered 401, its forced refresh was rejected by
\* the upstream, and the call ended with that error after its one send
C28_Witness ==
  \E r \in WrappedCalls :
    /\ retry[r] /\ hist[r].forced = 1
    /\ outcome[r] = "RefreshFailed"
    /\ lastStatus[r] = 401
    /\ Len(sent[r]) = 1
    /\ tokenStore # Null

\* C29: a history request answered with an error status other than 401
\* ends the history call with an error that carries that status and the
\* body of the response (in its message); the request is not sent again, and
\* no refresh is started for it.
C29_HistoryErrorCarriesStatusAndBody ==
  [][LET r == "syncStockData" IN
     /\ (GotResponse(r) /\ lastStatus'[r] \notin {200, 401}) =>
          /\ pc'[r] = "done"
          /\ thrown'[r].message.status = lastStatus'[r]
          /\ thrown'[r].message.body = lastBody'[r]
          /\ lastBody'[r] \in Bodies
          /\ sent'[r] = sent[r]
          /\ hist'[r] = hist[r]
          /\ tmVars' = tmVars
     /\ (pc[r] = "done" /\ thrown[r] # NoError) =>
          (pc'[r] = "done" /\ sent'[r] = sent[r] /\ thrown'[r] = thrown[r])]_vars

\* the second history request of a sync was answered 500 and the sync has
\* the error, with status and body, after two requests
C29_Witness ==
  LET r == "syncStockData" IN
  /\ pc[r] = "done"
  /\ lastStatus[r] = 500
  /\ thrown[r] = HistoryError(500, lastBody[r])
  /\ lastBody[r] \in Bodies
  /\ Len(sent[r]) = 2

----------------------------------------------------------------------------
(* Login and logout *)

\* the access token a login obtains; refresh_token || ""
LoginTokenId == 9
NoRefreshToken == -2

\* the validate-authcode response: expires_in (0: absent), refresh_token or not
LoginResponses == RefreshResponses

\* login: the token built from the response
LoginToken(resp, time) ==
  [accessToken |-> LoginTokenId,
   refreshToken |-> IF resp.rtPresent THEN LoginTokenId ELSE NoRefreshToken,
   expiresAt |-> time + (IF resp.expiresIn = 0 THEN DefaultExpiresIn
                         ELSE resp.expiresIn) * 1000]

\* GET /callback with an auth_code: login() posts it to validate-authcode
LoginPost ==
  /\ lpc = "idle"
  /\ lpc' = "posted"
  /\ UNCHANGED <<now, tokenStore, tmVars, callVars, rangeVars, stratVars, niftyVars, bulkVars, fileVars, ltok, authLog>>

\* the upstream accepts the code: login builds the token and starts saving it
LoginUpstreamOk(resp) ==
  /\ lpc = "posted"
  /\ lpc' = "saving"
  /\ ltok' = Some(LoginToken(resp, now))
  /\ UNCHANGED <<now, tokenStore, tmVars, callVars, rangeVars, stratVars, niftyVars, bulkVars, fileVars, authLog>>

\* the upstream rejects the code (or the POST fails): login throws, the
\* route answers 500
LoginUpstreamFail ==
  /\ lpc = "posted"
  /\ lpc' = "idle"
  /\ tokenStore' = StoreAfterLoginFailure(tokenStore)
  /\ authLog' = authLog \cup {"loginFailed"}
  /\ UNCHANGED <<now, tmVars, callVars, rangeVars, stratVars, niftyVars, bulkVars, fileVars, ltok>>

\* fyersTokenStore.save of the login completes
LoginSaveDone ==
  /\ lpc = "saving"
  /\ lpc' = "idle"
  /\ tokenStore' = ltok
  /\ ltok' = Null
  /\ authLog' = authLog \cup {"login"}
  /\ UNCHANGED <<now, tmVars, callVars, rangeVars, stratVars, niftyVars, bulkVars, fileVars>>

\* POST /logout: fyersTokenStore.clear() unlinks the file (no file: nothing)
Logout ==
  /\ tokenStore' = Null
  /\ authLog' = authLog \cup {"logout"}
  /\ UNCHANGED <<now, tmVars, callVars, rangeVars, stratVars, niftyVars, bulkVars, fileVars, lpc, ltok>>

\* getProfile, with logins and logouts going on
NextAuth ==
  \/ NextOf({"getProfile"})
  \/ LoginPost
  \/ \E resp \in LoginResponses : LoginUpstreamOk(resp)
  \/ LoginUpstreamFail
  \/ LoginSaveDone
  \/ Logout

SpecAuth == Init /\ [][NextAuth]_vars

\* the step in which the save of a login lands
LoginSaves == lpc = "saving" /\ lpc' = "idle" /\ tokenStore' = ltok

\* the step in which the save of a successful refresh lands
RefreshSaves ==
  \E p \in PromiseIds :
    /\ promises[p].st = "saving"
    /\ promises'[p].st = "resolved"
    /\ tokenStore' = promises[p].upd

\* a logout step: the token is gone and nothing else has moved
LogoutDeletes ==
  /\ tokenStore' = Null
  /\ "logout" \in authLog'
  /\ UNCHANGED <<now, tmVars, callVars, lpc, ltok>>

\* C20: the stored token changes only in three kinds of step: the save of a
\* successful login, the save of a successful refresh, and a logout.  Every
\* other step (a read, a failed login, a failed refresh, a request or its
\* response) leaves the token store as it was.
C20_StoreChangesOnlyByLoginRefreshLogout ==
  [][tokenStore' # tokenStore => (LoginSaves \/ RefreshSaves \/ LogoutDeletes)]_vars

\* a login has succeeded and one has failed, a refresh has succeeded and one
\* has failed, a logout has happened, a request has been answered 401, and a
\* token is stored
C20_Witness ==
  /\ authLog = {"login", "loginFailed", "logout"}
  /\ \E p \in PromiseIds : promises[p].st = "resolved"
  /\ \E p \in PromiseIds : promises[p].err = "RefreshFailed"
  /\ lastStatus["getProfile"] = 401
  /\ tokenStore # Null

\* C37: once a logout has emptied the token store, the store stays empty
\* until the save of the next login: no other step, the save of a refresh
\* that was in flight at the logout included, puts a token into it.
C37_LogoutStaysEmpty ==
  [][(tokenStore = Null /\ "logout" \in authLog /\ tokenStore' # Null) => LoginSaves]_vars

----------------------------------------------------------------------------
(* The strategy server: /strategy/start, /strategy/stop, /strategy/reset and
   runStrategy, which the timer invokes every 40 seconds.  A run that takes
   longer than that overlaps the next one.  The table "candles" is the
   variable candles; shadow belongs to the comparison with per-row upserts
   and stays as it is here. *)

\* 60 * 60 * 1000 ms, in seconds
HourSeconds == 3600

\* Unix time of the moment at which now = 0, in seconds
StartSeconds == 1728007200

\* Math.floor(now.getTime() / 1000)
UnixSeconds(time) == StartSeconds + time \div 1000

\* a.sort((a, b) => a[0] - b[0]): the sort is stable
RECURSIVE InsertSorted(_, _)
InsertSorted(sorted, c) ==
  IF sorted = <<>> THEN <<c>>
  ELSE IF Head(sorted).timestamp > c.timestamp THEN <<c>> \o sorted
  ELSE <<Head(sorted)>> \o InsertSorted(Tail(sorted), c)

RECURSIVE SortByTimestamp(_)
SortByTimestamp(cs) ==
  IF cs = <<>> THEN <<>>
  ELSE InsertSorted(SortByTimestamp(SubSeq(cs, 1, Len(cs) - 1)), cs[Len(cs)])

\* getLastTimestampFromDB(symbol): the greatest timestamp stored, or null (0)
getLastTimestampFromDB(rows, symbol) ==
  LET ts == {r.timestamp : r \in {q \in rows : q.symbol = symbol}} IN
  IF ts = {} THEN 0 ELSE CHOOSE t \in ts : \A u \in ts : u <= t

\* runStrategy: let rangeFrom, given lastFetchedTimestamp and now in seconds
RangeFromHourAgo(last, secs) == secs - HourSeconds

RangeFrom(last, secs) == IF last = 0 THEN secs - HourSeconds ELSE last + 1

\* /strategy/reset: if (strategyRunning) return res.status(400)
ResetAllowedAlways(running) == TRUE

ResetAllowed(running) == ~running

FreeSlot(k) == run[k].pc = "idle"

\* the candle arrays getHistory answers with, in any order
HistoryCandles == {Candle(t, 1, SomeVolume) : t \in StoreStamps}
HistoryLists ==
  {<<c>> : c \in HistoryCandles}
    \cup {<<c1, c2>> : c1 \in HistoryCandles, c2 \in HistoryCandles}

\* runStrategy() up to its first await, in slot k: without tokens it returns;
\* with lastFetchedTimestamp unset it asks the database, else it requests the
\* history from lastFetchedTimestamp + 1
BeginRun(k, tokens) ==
  IF ~tokens THEN run
  ELSE IF lastFetchedTimestamp = 0
  THEN [run EXCEPT ![k] = [IdleRun EXCEPT !.pc = "query",
                                          !.rangeTo = UnixSeconds(now)]]
  ELSE [run EXCEPT ![k] = [IdleRun EXCEPT !.pc = "fetch",
                                          !.rangeFrom = RangeFrom(lastFetchedTimestamp,
                                                                  UnixSeconds(now)),
                                          !.rangeTo = UnixSeconds(now)]]

\* /strategy/start: if (strategyRunning) return res.json(already running)
StartAllowedAlways(running) == TRUE

StartAllowed(running) == ~running

\* POST /strategy/start with tokens at hand, the strategy not running:
\* runStrategy() is called and setInterval registers the timer
StrategyStart(k) ==
  /\ StartAllowed(strategyRunning)
  /\ FreeSlot(k)
  /\ run' = BeginRun(k, TRUE)
  /\ timers' = timers + 1
  /\ strategyInterval' = TRUE
  /\ strategyRunning' = TRUE
  /\ stratRes' = "started"
  /\ UNCHANGED <<lastFetchedTimestamp, rpc, resetRes>>
  /\ UNCHANGED <<now, tokenStore, tmVars, callVars, rangeVars, authVars, niftyVars, bulkVars, fileVars>>

\* POST /strategy/start while the strategy runs: "already running"
StartRefused ==
  /\ ~StartAllowed(strategyRunning)
  /\ stratRes' = "already_running"
  /\ UNCHANGED <<strategyRunning, strategyInterval, lastFetchedTimestamp, run,
                 rpc, resetRes, timers>>
  /\ UNCHANGED <<now, tokenStore, tmVars, callVars, rangeVars, authVars, niftyVars, bulkVars, fileVars>>

\* POST /strategy/start without tokens, the strategy not running: 401
StartNoTokens ==
  /\ StartAllowed(strategyRunning)
  /\ stratRes' = "401"
  /\ UNCHANGED <<strategyRunning, strategyInterval, lastFetchedTimestamp, run,
                 rpc, resetRes, timers>>
  /\ UNCHANGED <<now, tokenStore, tmVars, callVars, rangeVars, authVars, niftyVars, bulkVars, fileVars>>

\* POST /strategy/stop while the strategy runs: clearInterval of the timer
\* strategyInterval holds
StrategyStop ==
  /\ strategyRunning
  /\ timers' = IF strategyInterval THEN timers - 1 ELSE timers
  /\ strategyInterval' = FALSE
  /\ strategyRunning' = FALSE
  /\ stratRes' = "stopped"
  /\ UNCHANGED <<lastFetchedTimestamp, run, rpc, resetRes>>
  /\ UNCHANGED <<now, tokenStore, tmVars, callVars, rangeVars, authVars, niftyVars, bulkVars, fileVars>>

\* POST /strategy/stop while the strategy does not run: "not running"
StopRefused ==
  /\ ~strategyRunning
  /\ stratRes' = "not_running"
  /\ UNCHANGED <<strategyRunning, strategyInterval, lastFetchedTimestamp, run,
                 rpc, resetRes, timers>>
  /\ UNCHANGED <<now, tokenStore, tmVars, callVars, rangeVars, authVars, niftyVars, bulkVars, fileVars>>

\* a registered timer fires: runStrategy()
TimerFires(k, tokens) ==
  /\ timers > 0
  /\ FreeSlot(k)
  /\ run' = BeginRun(k, tokens)
  /\ UNCHANGED <<strategyRunning, strategyInterval, lastFetchedTimestamp, rpc, resetRes, timers, stratRes>>
  /\ UNCHANGED <<now, tokenStore, tmVars, callVars, rangeVars, authVars, niftyVars, bulkVars, fileVars>>

\* the database answers prisma.candle.findFirst of getLastTimestampFromDB
RunQuery(k) ==
  /\ run[k].pc = "query"
  /\ run' = [run EXCEPT ![k].pc = "queried",
                        ![k].seen = getLastTimestampFromDB(candles, SYMBOL)]
  /\ UNCHANGED <<strategyRunning, strategyInterval, lastFetchedTimestamp, rpc, resetRes, timers, stratRes>>
  /\ UNCHANGED <<now, tokenStore, tmVars, callVars, rangeVars, authVars, niftyVars, bulkVars, fileVars>>

\* runStrategy after await getLastTimestampFromDB, up to await getHistory
RunQueried(k) ==
  LET last == IF run[k].seen # 0 THEN run[k].seen ELSE lastFetchedTimestamp IN
  /\ run[k].pc = "queried"
  /\ lastFetchedTimestamp' = last
  /\ run' = [run EXCEPT ![k].pc = "fetch",
                        ![k].rangeFrom = RangeFrom(last, run[k].rangeTo)]
  /\ UNCHANGED <<strategyRunning, strategyInterval, rpc, resetRes, timers, stratRes>>
  /\ UNCHANGED <<now, tokenStore, tmVars, callVars, rangeVars, authVars, niftyVars, bulkVars, fileVars>>

\* the answer to range_from = from holds no candle before from, where from
\* is one second after a stored timestamp (one hour before now lies before
\* all the timestamps the answers have)
InRange(cs, from) ==
  from \in {t + 1 : t \in StoreStamps} => \A i \in 1..Len(cs) : cs[i].timestamp >= from

\* getHistory answers ok with candles: they are sorted and handed to
\* insertCandlesToDB (rangeFrom and rangeTo are not read again)
RunFetched(k, cs) ==
  /\ run[k].pc = "fetch"
  /\ Len(cs) > 0
  /\ InRange(cs, run[k].rangeFrom)
  /\ run' = [run EXCEPT ![k] = [IdleRun EXCEPT !.pc = "insert",
                                              !.cs = SortByTimestamp(cs)]]
  /\ UNCHANGED <<strategyRunning, strategyInterval, lastFetchedTimestamp, rpc, resetRes, timers, stratRes>>
  /\ UNCHANGED <<now, tokenStore, tmVars, callVars, rangeVars, authVars, niftyVars, bulkVars, fileVars>>

\* getHistory answers without candles, or throws: the run ends
RunNoData(k) ==
  /\ run[k].pc = "fetch"
  /\ run' = [run EXCEPT ![k] = IdleRun]
  /\ UNCHANGED <<strategyRunning, strategyInterval, lastFetchedTimestamp, rpc, resetRes, timers, stratRes>>
  /\ UNCHANGED <<now, tokenStore, tmVars, callVars, rangeVars, authVars, niftyVars, bulkVars, fileVars>>

\* the database executes the inserts of insertCandlesToDB(candles, SYMBOL)
RunInsert(k) ==
  /\ run[k].pc = "insert"
  /\ candles' = insertCandlesToDB(candles, run[k].cs, SYMBOL)
  /\ run' = [run EXCEPT ![k].pc = "inserted"]
  /\ UNCHANGED <<strategyRunning, strategyInterval, lastFetchedTimestamp, rpc, resetRes, timers, stratRes>>
  /\ UNCHANGED <<now, tokenStore, tmVars, callVars, authVars, niftyVars, bulkVars, fileVars, fetchVars, shadow,
                 range_from, range_to, plan, chunks>>

\* runStrategy after await insertCandlesToDB
RunInserted(k) ==
  /\ run[k].pc = "inserted"
  /\ lastFetchedTimestamp' = run[k].cs[Len(run[k].cs)].timestamp
  /\ run' = [run EXCEPT ![k] = IdleRun]
  /\ UNCHANGED <<strategyRunning, strategyInterval, rpc, resetRes, timers, stratRes>>
  /\ UNCHANGED <<now, tokenStore, tmVars, callVars, rangeVars, authVars, niftyVars, bulkVars, fileVars>>

\* POST /strategy/reset arrives: 400 while the strategy is running, else
\* deleteMany is issued
ResetRequest ==
  /\ rpc = "idle"
  /\ IF ResetAllowed(strategyRunning)
     THEN rpc' = "deleting" /\ UNCHANGED resetRes
     ELSE resetRes' = resetRes \cup {"400"} /\ UNCHANGED rpc
  /\ UNCHANGED <<strategyRunning, strategyInterval, lastFetchedTimestamp, run, timers, stratRes>>
  /\ UNCHANGED <<now, tokenStore, tmVars, callVars, rangeVars, authVars, niftyVars, bulkVars, fileVars>>

\* the database executes prisma.candle.deleteMany({where: {symbol: SYMBOL}})
ResetDelete ==
  /\ rpc = "deleting"
  /\ candles' = {r \in candles : r.symbol # SYMBOL}
  /\ rpc' = "deleted"
  /\ UNCHANGED <<strategyRunning, strategyInterval, lastFetchedTimestamp, run, resetRes, timers, stratRes>>
  /\ UNCHANGED <<now, tokenStore, tmVars, callVars, authVars, niftyVars, bulkVars, fileVars, fetchVars, shadow,
                 range_from, range_to, plan, chunks>>

\* /nifty50-1min has fetched and sorted its candles: the database executes
\* the inserts of insertCandlesToDB(allCandles, symbol)
NiftyInsert(cs, symbol) ==
  /\ candles' = insertCandlesToDB(candles, SortByTimestamp(cs), symbol)
  /\ UNCHANGED stratVars
  /\ UNCHANGED <<now, tokenStore, tmVars, callVars, authVars, niftyVars, bulkVars, fileVars, fetchVars, shadow,
                 range_from, range_to, plan, chunks>>

\* the reset handler after await deleteMany
ResetFinish ==
  /\ rpc = "deleted"
  /\ lastFetchedTimestamp' = 0
  /\ resetRes' = resetRes \cup {"reset"}
  /\ stratRes' = "reset"
  /\ rpc' = "idle"
  /\ UNCHANGED <<strategyRunning, strategyInterval, run, timers>>
  /\ UNCHANGED <<now, tokenStore, tmVars, callVars, rangeVars, authVars, niftyVars, bulkVars, fileVars>>

InitStrategy == TokenInit({Null}) /\ NoRange /\ NoNifty

NextStrategy ==
  \/ \E k \in RunSlots : StrategyStart(k)
  \/ StrategyStop
  \/ \E k \in RunSlots, tokens \in BOOLEAN : TimerFires(k, tokens)
  \/ \E k \in RunSlots : RunQuery(k)
  \/ \E k \in RunSlots : RunQueried(k)
  \/ \E k \in RunSlots, cs \in HistoryLists : RunFetched(k, cs)
  \/ \E k \in RunSlots : RunNoData(k)
  \/ \E k \in RunSlots : RunInsert(k)
  \/ \E k \in RunSlots : RunInserted(k)
  \/ \E cs \in HistoryLists, symbol \in Symbols : NiftyInsert(cs, symbol)
  \/ ResetRequest
  \/ ResetDelete
  \/ ResetFinish

SpecStrategy == InitStrategy /\ [][NextStrategy]_vars

\* C35: lastFetchedTimestamp never decreases, except in the step of a reset
\* that sets it to null, whether or not runs overlap.
C35_LastFetchedNeverDecreases ==
  [][\/ lastFetchedTimestamp' >= lastFetchedTimestamp
     \/ (rpc = "deleted" /\ rpc' = "idle" /\ lastFetchedTimestamp' = 0)]_vars

\* the timestamps stored for SYMBOL
StoredStamps == {r.timestamp : r \in {q \in candles : q.symbol = SYMBOL}}

\* the strategy alone on its table: start, stop, the timer, the runs, reset
NextReset ==
  \/ \E k \in RunSlots : StrategyStart(k)
  \/ StrategyStop
  \/ \E k \in RunSlots, tokens \in BOOLEAN : TimerFires(k, tokens)
  \/ \E k \in RunSlots : RunQuery(k)
  \/ \E k \in RunSlots : RunQueried(k)
  \/ \E k \in RunSlots, cs \in HistoryLists : RunFetched(k, cs)
  \/ \E k \in RunSlots : RunNoData(k)
  \/ \E k \in RunSlots : RunInsert(k)
  \/ \E k \in RunSlots : RunInserted(k)
  \/ ResetRequest
  \/ ResetDelete
  \/ ResetFinish

SpecReset == InitStrategy /\ [][NextReset]_vars

\* C36: from the "reset" response of a reset until the strategy is started
\* again, no candle is stored for SYMBOL and lastFetchedTimestamp is null,
\* also when a run that began before the stop is still in progress.
C36_ResetStaysClean ==
  stratRes = "reset" => (StoredStamps = {} /\ lastFetchedTimestamp = 0)

\* the start and stop handlers with all their answers, the timer and the
\* runs it starts
NextTimer ==
  \/ \E k \in RunSlots : StrategyStart(k)
  \/ StartRefused
  \/ StartNoTokens
  \/ StrategyStop
  \/ StopRefused
  \/ \E k \in RunSlots, tokens \in BOOLEAN : TimerFires(k, tokens)
  \/ \E k \in RunSlots : RunQuery(k)
  \/ \E k \in RunSlots : RunQueried(k)
  \/ \E k \in RunSlots, cs \in HistoryLists : RunFetched(k, cs)
  \/ \E k \in RunSlots : RunNoData(k)
  \/ \E k \in RunSlots : RunInsert(k)
  \/ \E k \in RunSlots : RunInserted(k)

SpecTimer == InitStrategy /\ [][NextTimer]_vars

C21_OnlyResetRemovesRows ==
  [][/\ ~(candles \subseteq candles') =>
          /\ rpc = "deleting" /\ rpc' = "deleted"
          /\ candles' = {r \in candles : r.symbol # SYMBOL}
     /\ (rpc = "idle" /\ rpc' # "idle") => ~strategyRunning
     /\ ("400" \in resetRes' /\ "400" \notin resetRes) =>
          /\ strategyRunning
          /\ candles' = candles
          /\ lastFetchedTimestamp' = lastFetchedTimestamp
          /\ rpc' = "idle"]_vars

\* a reset has been carried out and, later, one was refused while the
\* strategy was running with candles stored and lastFetchedTimestamp set
C21_Witness ==
  /\ resetRes = {"400", "reset"}
  /\ strategyRunning
  /\ lastFetchedTimestamp # 0
  /\ \E r \in candles : r.symbol = SYMBOL
  /\ \E r \in candles : r.symbol # SYMBOL

\* C22: a run that finds lastFetchedTimestamp unset asks the database; if
\* candles are stored for the symbol the answer is the greatest stored
\* timestamp and the run fetches from that timestamp plus one second; it
\* fetches from one hour before now only if the answer was that nothing is
\* stored.
C22_FirstRunResumesFromStore ==
  [][\A k \in RunSlots :
       /\ (run[k].pc = "query" /\ run'[k].pc = "queried") =>
            IF StoredStamps = {} THEN run'[k].seen = 0
            ELSE /\ run'[k].seen \in StoredStamps
                 /\ \A u \in StoredStamps : u <= run'[k].seen
       /\ (run[k].pc = "queried" /\ run'[k].pc = "fetch") =>
            /\ run[k].seen # 0 => run'[k].rangeFrom = run[k].seen + 1
            /\ run'[k].rangeFrom = run[k].rangeTo - HourSeconds => run[k].seen = 0]_vars

\* two candles were stored for the symbol when a first run asked, and the
\* run now requests the history from the later one plus one second
C22_Witness ==
  \E k \in RunSlots :
    /\ run[k].pc = "fetch"
    /\ run[k].seen = 2
    /\ run[k].rangeFrom = 3
    /\ resetRes = {}

----------------------------------------------------------------------------
(* GET /nifty50-1min: the history of the last totalDays days, fetched in
   batches of batchSize days, oldest first *)

batchSize == 100
DaySeconds == 86400

\* const d = new Date(); d.setDate(today.getDate() - n);
\* Math.floor(d.getTime() / 1000): the present time of day, n days back
\* (the request is served within one calendar day, there is no DST)
DaysBack(time, n) == UnixSeconds(time) - n * DaySeconds

\* what getHistory answers to a batch
NiftyPayloads == {<<>>} \cup HistoryLists

\* the handler has read its parameters; ?days=N with N >= 1
NiftyInit ==
  /\ totalDays \in 1..MaxDays
  /\ daysAgo = totalDays
  /\ npc = "loop"
  /\ nreqs = <<>>
  /\ allCandles = <<>>

\* one pass of the loop up to await fyers.getHistory(inp)
NiftyRequest ==
  /\ npc = "loop"
  /\ daysAgo > 0
  /\ LET batchEndDaysAgo == IF daysAgo - batchSize > 0 THEN daysAgo - batchSize ELSE 0
     IN nreqs' = Append(nreqs, [from |-> DaysBack(now, daysAgo),
                                to |-> DaysBack(now, batchEndDaysAgo)])
  /\ npc' = "await"
  /\ UNCHANGED <<totalDays, daysAgo, allCandles>>
  /\ UNCHANGED <<now, tokenStore, tmVars, callVars, rangeVars, authVars, stratVars, bulkVars, fileVars>>

\* getHistory answers: candles are appended; before the last batch the
\* handler waits 500 ms
NiftyAnswer(cs) ==
  /\ npc = "await"
  /\ allCandles' = IF Len(cs) > 0 THEN allCandles \o cs ELSE allCandles
  /\ IF daysAgo > batchSize
     THEN npc' = "delay" /\ UNCHANGED daysAgo
     ELSE npc' = "loop" /\ daysAgo' = daysAgo - batchSize
  /\ UNCHANGED <<totalDays, nreqs>>
  /\ UNCHANGED <<now, tokenStore, tmVars, callVars, rangeVars, authVars, stratVars, bulkVars, fileVars>>

\* getHistory throws: the catch answers 500
NiftyThrow ==
  /\ npc = "await"
  /\ npc' = "failed"
  /\ UNCHANGED <<totalDays, daysAgo, nreqs, allCandles>>
  /\ UNCHANGED <<now, tokenStore, tmVars, callVars, rangeVars, authVars, stratVars, bulkVars, fileVars>>

\* the 500 ms are over: daysAgo -= batchSize
NiftyDelay ==
  /\ npc = "delay"
  /\ daysAgo' = daysAgo - batchSize
  /\ npc' = "loop"
  /\ UNCHANGED <<totalDays, nreqs, allCandles>>
  /\ UNCHANGED <<now, tokenStore, tmVars, callVars, rangeVars, authVars, stratVars, bulkVars, fileVars>>

\* after the loop: sort, insert, answer
NiftyFinish ==
  /\ npc = "loop"
  /\ daysAgo <= 0
  /\ allCandles' = SortByTimestamp(allCandles)
  /\ IF Len(allCandles) > 0
     THEN /\ candles' = insertCandlesToDB(candles, allCandles', SYMBOL)
          /\ npc' = "done"
     ELSE /\ UNCHANGED candles
          /\ npc' = "nodata"
  /\ UNCHANGED <<totalDays, daysAgo, nreqs>>
  /\ UNCHANGED <<now, tokenStore, tmVars, callVars, authVars, stratVars, bulkVars, fileVars, fetchVars,
                 shadow, range_from, range_to, plan, chunks>>

InitNifty == TokenInit({Null}) /\ NoRange /\ NiftyInit

NextNifty ==
  \/ Tick
  \/ NiftyRequest
  \/ \E cs \in NiftyPayloads : NiftyAnswer(cs)
  \/ NiftyThrow
  \/ NiftyDelay
  \/ NiftyFinish

SpecNifty == InitNifty /\ [][NextNifty]_vars

NiftyFinished == npc \in {"done", "nodata"}

\* Math.ceil(totalDays / batchSize)
NiftyBatches == (totalDays + batchSize - 1) \div batchSize

\* the day a time in seconds falls on
DayOf(secs) == secs \div DaySeconds

\* exactly ceil(N/100) requests were made, oldest first, each of at most 100
\* days, from the day N days ago to today
NiftyBatchesInOrder ==
  /\ Len(nreqs) = NiftyBatches
  /\ \A i \in 1..Len(nreqs) :
       /\ nreqs[i].from < nreqs[i].to
       /\ nreqs[i].to - nreqs[i].from <= batchSize * DaySeconds
  /\ \A i \in 1..(Len(nreqs) - 1) : nreqs[i].from < nreqs[i + 1].from
  /\ DayOf(nreqs[1].from) = DayOf(UnixSeconds(0)) - totalDays
  /\ DayOf(nreqs[Len(nreqs)].to) = DayOf(UnixSeconds(0))

\* each range begins no later than the second after the one before it ends
NiftyNoGap ==
  \A i \in 1..(Len(nreqs) - 1) : nreqs[i + 1].from <= nreqs[i].to + 1

\* C23: for a /nifty50-1min fetch of N days, N >= 1, that has run to its
\* end, exactly ceil(N/100) history requests were made, oldest first, each
\* spanning at most 100 days, and their ranges cover the interval from N
\* days ago to today without a gap.
C23_BatchesCoverInterval ==
  NiftyFinished => (NiftyBatchesInOrder /\ NiftyNoGap)

----------------------------------------------------------------------------
(* POST /syncAllStocks: the sync of every configured symbol and of India VIX
   in one request.  A sync of one symbol returns its stats or throws, as
   syncStockData and syncIndiaVixData do. *)

\* config.name of stockConfigs, in the order of the array
stockConfigs ==
  <<"NIFTY50", "HDFC Bank", "Reliance", "ICICI Bank", "Infosys", "TCS",
    "Bharti Airtel", "L&T">>

\* the syncs the handler makes, in the order of its code: the loop over
\* stockConfigs, then syncIndiaVixData
BulkOrder == stockConfigs \o <<"India VIX">>

\* error.message of what a sync throws
SyncErrors == {"Fyers token missing", "Failed to fetch data from Fyers"}

\* stats a sync returns
SyncStats == {[total |-> 2, inserted |-> 1, updated |-> 0, skipped |-> 1]}

\* results[name] = entry on the object results
SetEntry(rs, name, entry) ==
  {e \in rs : e.name # name} \cup {[name |-> name] @@ entry}

\* success: totalErrors === 0
SummarySuccessAlways(errors) == TRUE

SummarySuccess(errors) == errors = 0

\* the name whose sync is called next
BulkNext == BulkOrder[Len(attempts) + 1]

\* what follows the sync of a name: the next pass of the loop, India VIX, or
\* the summary
BulkAfter(done) == IF Len(done) < Len(BulkOrder) THEN "sync" ELSE "summary"

\* the request arrives; range_from or range_to missing or not DD/MM/YYYY is
\* answered 400
BulkStart(valid) ==
  /\ bpc = "idle"
  /\ IF valid
     THEN bpc' = "sync" /\ UNCHANGED summary
     ELSE bpc' = "done" /\ summary' = [NoSummary EXCEPT !.status = 400]
  /\ UNCHANGED <<attempts, results, totalErrors>>
  /\ UNCHANGED <<now, tokenStore, tmVars, callVars, rangeVars, authVars, stratVars, niftyVars, fileVars>>

\* the sync of the next name returns stats
BulkSyncOk(stats) ==
  /\ bpc = "sync"
  /\ attempts' = Append(attempts, BulkNext)
  /\ results' = SetEntry(results, BulkNext,
                         [success |-> TRUE, stats |-> stats, error |-> ""])
  /\ bpc' = BulkAfter(attempts')
  /\ UNCHANGED <<totalErrors, summary>>
  /\ UNCHANGED <<now, tokenStore, tmVars, callVars, rangeVars, authVars, stratVars, niftyVars, fileVars>>

\* the sync of the next name throws: the catch records the message and
\* counts the error
BulkSyncFail(msg) ==
  /\ bpc = "sync"
  /\ attempts' = Append(attempts, BulkNext)
  /\ results' = SetEntry(results, BulkNext,
                         [success |-> FALSE, stats |-> NoTotals, error |-> msg])
  /\ totalErrors' = totalErrors + 1
  /\ bpc' = BulkAfter(attempts')
  /\ UNCHANGED summary
  /\ UNCHANGED <<now, tokenStore, tmVars, callVars, rangeVars, authVars, stratVars, niftyVars, fileVars>>

\* res.json(summary)
BulkRespond ==
  /\ bpc = "summary"
  /\ summary' = [status |-> 200, success |-> SummarySuccess(totalErrors),
                 results |-> results]
  /\ bpc' = "done"
  /\ UNCHANGED <<attempts, results, totalErrors>>
  /\ UNCHANGED <<now, tokenStore, tmVars, callVars, rangeVars, authVars, stratVars, niftyVars, fileVars>>

InitBulk == TokenInit({Null}) /\ NoRange /\ NoNifty

NextBulk ==
  \/ \E valid \in BOOLEAN : BulkStart(valid)
  \/ \E stats \in SyncStats : BulkSyncOk(stats)
  \/ \E msg \in SyncErrors : BulkSyncFail(msg)
  \/ BulkRespond

SpecBulk == InitBulk /\ [][NextBulk]_vars

\* the entries of the results for a name
EntriesOf(rs, name) == {e \in rs : e.name = name}

\* C33: in the bulk sync the symbols are attempted in the configured order,
\* India VIX last, whatever failed before; each attempted name has exactly
\* one result entry; the summary is sent after all nine were attempted and
\* reports success exactly when no entry is a failure.
C33_BulkSyncAttemptsAll ==
  /\ attempts = SubSeq(BulkOrder, 1, Len(attempts))
  /\ \A i \in 1..Len(BulkOrder) :
       Cardinality(EntriesOf(results, BulkOrder[i])) = (IF i <= Len(attempts) THEN 1 ELSE 0)
  /\ summary.status = 200 =>
       /\ attempts = BulkOrder
       /\ summary.results = results
       /\ summary.success <=> (\A e \in results : e.success)

\* the summary was sent although the first symbol failed: the other eight
\* were attempted and succeeded
C33_Witness ==
  /\ summary.status = 200
  /\ ~summary.success
  /\ \E e \in results : e.name = BulkOrder[1] /\ ~e.success
  /\ \A i \in 2..Len(BulkOrder) : \E e \in results : e.name = BulkOrder[i] /\ e.success

----------------------------------------------------------------------------
(* The token file under fyersTokenStore.save and get.  save is one
   fs.writeFile, which opens the file with flag "w", truncating it, and then
   writes the text; get is fs.readFile and JSON.parse, and answers null for
   any error.  Both are asynchronous and take no lock, so a read can fall
   between the steps of a write.  A file that is truncated or partly written
   is "torn". *)

\* fyersTokenStore.get() on the file: JSON.parse of a torn text throws, a
\* missing file gives ENOENT, and the catch returns null for both
FileGet(f) == IF f.st = "whole" THEN "token" ELSE "null"

\* getValidAccessToken: if (!token) throw new Error("Fyers token missing")
GvatAfterGet(got) == IF got = "null" THEN "TokenMissing" ELSE "ok"

\* a refresh (or a login) calls fyersTokenStore.save with its new token
FileSaveCall ==
  /\ fsave.pc = "idle"
  /\ fsave.n < MaxRefresh
  /\ fsave' = [pc |-> "called", n |-> fsave.n + 1]
  /\ UNCHANGED <<file, fget>>
  /\ UNCHANGED <<now, tokenStore, tmVars, callVars, rangeVars, authVars, stratVars, niftyVars, bulkVars>>

\* fs.writeFile opens the file: it is truncated
FileSaveOpen ==
  /\ fsave.pc = "called"
  /\ fsave' = [fsave EXCEPT !.pc = "opened"]
  /\ file' = [st |-> "torn", n |-> 0]
  /\ UNCHANGED fget
  /\ UNCHANGED <<now, tokenStore, tmVars, callVars, rangeVars, authVars, stratVars, niftyVars, bulkVars>>

\* fs.writeFile has written the text and closed the file: save returns
FileSaveWritten ==
  /\ fsave.pc = "opened"
  /\ fsave' = [fsave EXCEPT !.pc = "idle"]
  /\ file' = [st |-> "whole", n |-> fsave.n]
  /\ UNCHANGED fget
  /\ UNCHANGED <<now, tokenStore, tmVars, callVars, rangeVars, authVars, stratVars, niftyVars, bulkVars>>

\* a request calls getValidAccessToken, which calls fyersTokenStore.get()
FileGetCall(r) ==
  /\ fget[r].pc = "idle"
  /\ fget' = [fget EXCEPT ![r].pc = "reading"]
  /\ UNCHANGED <<file, fsave>>
  /\ UNCHANGED <<now, tokenStore, tmVars, callVars, rangeVars, authVars, stratVars, niftyVars, bulkVars>>

\* fs.readFile reads the file as it is now; get returns, and
\* getValidAccessToken goes on with the token or throws
FileGetRead(r) ==
  /\ fget[r].pc = "reading"
  /\ fget' = [fget EXCEPT ![r] = [pc |-> "done",
                                   res |-> GvatAfterGet(FileGet(file)),
                                   n |-> file.n]]
  /\ UNCHANGED <<file, fsave>>
  /\ UNCHANGED <<now, tokenStore, tmVars, callVars, rangeVars, authVars, stratVars, niftyVars, bulkVars>>

InitFile == TokenInit({Null}) /\ NoRange /\ NoNifty

NextFile ==
  \/ FileSaveCall
  \/ FileSaveOpen
  \/ FileSaveWritten
  \/ \E r \in Callers : FileGetCall(r)
  \/ \E r \in Callers : FileGetRead(r)

SpecFile == InitFile /\ [][NextFile]_vars

\* C38: a getValidAccessToken whose read of the token file runs while a save
\* is going on gets the whole token of before the save or the whole new
\* one, and is never failed with "Fyers token missing".
C38_GetSeesOldOrNewToken ==
  [][\A r \in Callers :
       (fget[r].pc = "reading" /\ fget'[r].pc = "done") =>
         /\ fget'[r].res = "ok"
         /\ \/ FileToken(fget'[r].n) = FileToken(fsave.n)
            \/ /\ fsave.pc # "idle"
               /\ FileToken(fget'[r].n) = FileToken(fsave.n - 1)]_vars

====
